---- MODULE Spec2Model ----
(***************************************************************************)
(* Model of the KYC verification pipeline's shared state:                  *)
(*   - UsageTracker (backend/usage_tracker.py): the call counter and the   *)
(*     per-(document_type, side) retry counters;                           *)
(*   - the upload flow of kyc-agent/frontend/app_v2.py and the /analyze    *)
(*     endpoint of backend/api.py, which start analyses;                   *)
(*   - DerivSubmissionManager (kyc-agent/backend/deriv_api.py): the        *)
(*     submission history and the reviewer actions.                        *)
(***************************************************************************)
EXTENDS Integers, Sequences, FiniteSets, TLC

VARIABLES
    total_calls,        \* UsageStats.total_calls
    last_call,          \* UsageStats.last_call (NoTime = None)
    field_retries,      \* UsageStats.field_retries: key -> FieldRetryInfo
    now,                \* the reading of the clock (datetime.now / time.time)
    threads,            \* the calls of tracker methods running in other threads
    ret,                \* what the last operation returned
    documents,          \* st.session_state.documents: the stored storage keys
    attempts,           \* endpoint attempts made by the last request
    api_key_set,        \* GEMINI_API_KEY is set (GeminiOCR.is_configured)
    ocr,                \* the GeminiOCR object and the position of its running call
    analyses,           \* history: ocr.analyze_document calls started per field key
                        \* of the upload flow since the key's budget was last reset
    configured,         \* DerivWebSocketClient.is_configured
    submission_history, \* DerivSubmissionManager.submission_history
    caller_refs,        \* the list objects a caller passed in and still holds
    copies              \* whether the record's constructor copies a list it is given

vars == <<total_calls, last_call, field_retries, now, threads, ret, documents, attempts,
          api_key_set, ocr, analyses, configured, submission_history, caller_refs, copies>>

trackerVars == <<total_calls, last_call, field_retries>>
uploadVars == <<documents, attempts, api_key_set, ocr, analyses>>
submitVars == <<configured, submission_history, caller_refs, copies>>

----------------------------------------------------------------------------
(* Bounds of the model and input domains *)

MaxTime == 1
MaxVisionAttempts == 2
MaxSubmissions == 2
MaxSingleSubmissions == 1
MaxListLen == 2
MaxMismatches == 3
MaxAnalyses == 2
MaxThreads == 2
MaxCallsPerThread == 2
MaxIssues == 4
DocTypes == {"cnic"}
Sides == {"front", "back"}
NoTime == -1

(* Program constants *)
WARNING_THRESHOLD == 50
CRITICAL_THRESHOLD == 80
DAILY_LIMIT == 100
max_attempts == 2
GEMINI_MODELS_COUNT == 3
max_retries == 2

----------------------------------------------------------------------------
(* UsageStats / FieldRetryInfo *)

usage_level(total) ==
    IF total >= DAILY_LIMIT THEN "BLOCKED"
    ELSE IF total >= CRITICAL_THRESHOLD THEN "RED"
    ELSE IF total >= WARNING_THRESHOLD THEN "YELLOW"
    ELSE "GREEN"

Max0(x) == IF x > 0 THEN x ELSE 0

remaining_calls(total) == Max0(DAILY_LIMIT - total)

can_retry(info) == info.attempts < info.max_attempts

remaining_attempts(info) == Max0(info.max_attempts - info.attempts)

can_make_call_mut_off_by_one == total_calls <= DAILY_LIMIT

can_make_call == usage_level(total_calls) # "BLOCKED"

get_field_key(document_type, side) == document_type \o "_" \o side

\* The values of the DocumentType enumeration
DocumentTypeValues ==
    {"national_id", "passport", "driving_license", "aadhaar", "pan_card", "voter_id",
     "emirates_id", "utility_bill"}

FieldKeys == {get_field_key(d, s) : d \in DocTypes, s \in Sides}

RetK(op, key, ok, msg, n) == [op |-> op, key |-> key, ok |-> ok, msg |-> msg, n |-> n]

Ret(op, ok, msg, n) == RetK(op, "", ok, msg, n)

----------------------------------------------------------------------------
(* UsageTracker operations *)

record_call_result ==
    IF ~can_make_call
    THEN Ret("record_call", FALSE, "API limit reached", 0)
    ELSE LET t == total_calls + 1
             level == usage_level(t)
         IN  IF level = "RED"
             THEN Ret("record_call", TRUE, "Warning", remaining_calls(t))
             ELSE IF level = "YELLOW"
             THEN Ret("record_call", TRUE, "Note", remaining_calls(t))
             ELSE Ret("record_call", TRUE, "", 0)

record_call_effect ==
    IF ~can_make_call
    THEN UNCHANGED <<total_calls, last_call>>
    ELSE /\ total_calls' = total_calls + 1
         /\ last_call' = now

RecordCall ==
    /\ record_call_effect
    /\ ret' = record_call_result
    /\ UNCHANGED <<field_retries, now, threads, uploadVars, submitVars>>

NewInfo(document_type, side) ==
    [attempts |-> 0, max_attempts |-> max_attempts, last_attempt |-> NoTime,
     document_type |-> document_type, side |-> side]

InfoOf(fr, document_type, side) ==
    LET key == get_field_key(document_type, side)
    IN  IF key \in DOMAIN fr THEN fr[key] ELSE NewInfo(document_type, side)

Put(fr, key, info) ==
    [k \in DOMAIN fr \cup {key} |-> IF k = key THEN info ELSE fr[k]]

can_retry_field(document_type, side) ==
    LET key == get_field_key(document_type, side)
    IN  IF key \notin DOMAIN field_retries
        THEN <<TRUE, 2>>
        ELSE <<can_retry(field_retries[key]), remaining_attempts(field_retries[key])>>

field_attempt_refused_mut_three(info) == info.attempts > info.max_attempts

field_attempt_refused(info) == ~can_retry(info)

\* retry_info.attempts += 1 moved above the can_retry check
record_field_attempt_retries_mut_charge_refused(document_type, side) ==
    LET key == get_field_key(document_type, side)
        info == InfoOf(field_retries, document_type, side)
    IN  Put(field_retries, key, [info EXCEPT !.attempts = @ + 1, !.last_attempt = now])

record_field_attempt_retries(document_type, side) ==
    LET key == get_field_key(document_type, side)
        info == InfoOf(field_retries, document_type, side)
    IN  IF field_attempt_refused(info)
        THEN Put(field_retries, key, info)
        ELSE Put(field_retries, key,
                 [info EXCEPT !.attempts = @ + 1, !.last_attempt = now])

record_field_attempt_result(document_type, side) ==
    LET info == InfoOf(field_retries, document_type, side)
        after == [info EXCEPT !.attempts = @ + 1]
    IN  IF field_attempt_refused(info)
        THEN Ret("record_field_attempt", FALSE, "Maximum retries", info.max_attempts)
        ELSE IF remaining_attempts(after) = 0
        THEN Ret("record_field_attempt", TRUE, "This was your last attempt", 0)
        ELSE IF remaining_attempts(after) = 1
        THEN Ret("record_field_attempt", TRUE, "1 retry remaining", 1)
        ELSE Ret("record_field_attempt", TRUE, "", 0)

RecordFieldAttemptOn(d, s) ==
    /\ field_retries' = record_field_attempt_retries(d, s)
    /\ ret' = [record_field_attempt_result(d, s) EXCEPT !.key = get_field_key(d, s)]
    /\ UNCHANGED <<total_calls, last_call, now, threads, uploadVars, submitVars>>

RecordFieldAttempt == \E d \in DocTypes, s \in Sides : RecordFieldAttemptOn(d, s)

CanRetryField ==
    \E d \in DocTypes, s \in Sides :
        /\ ret' = RetK("can_retry_field", get_field_key(d, s),
                       can_retry_field(d, s)[1], "", can_retry_field(d, s)[2])
        /\ UNCHANGED <<trackerVars, now, threads, uploadVars, submitVars>>

ResetFieldOn(d, s) ==
    LET key == get_field_key(d, s)
    IN  /\ field_retries' = [k \in DOMAIN field_retries \ {key} |-> field_retries[k]]
        /\ analyses' = [k \in DOMAIN analyses \ {key} |-> analyses[k]]
        /\ ret' = RetK("reset_field", key, TRUE, "", 0)
        /\ UNCHANGED <<total_calls, last_call, now, threads, documents, attempts,
                       api_key_set, ocr, submitVars>>

ResetField == \E d \in DocTypes, s \in Sides : ResetFieldOn(d, s)

ResetAll ==
    /\ total_calls' = 0
    /\ last_call' = NoTime
    /\ field_retries' = <<>>
    /\ analyses' = <<>>
    /\ ret' = Ret("reset_all", TRUE, "", 0)
    /\ UNCHANGED <<now, threads, documents, attempts, api_key_set, ocr, submitVars>>

\* to_dict: the exported dictionary (session_start is not modelled)
to_dict(total, last, fr) ==
    [total_calls |-> total, last_call |-> last,
     field_retries |-> [k \in DOMAIN fr |->
                          [attempts |-> fr[k].attempts,
                           document_type |-> fr[k].document_type,
                           side |-> fr[k].side]]]

ToDict ==
    /\ ret' = [op |-> "to_dict", data |-> to_dict(total_calls, last_call, field_retries)]
    /\ UNCHANGED <<trackerVars, now, threads, uploadVars, submitVars>>

\* The dictionaries handed to from_dict: exports of a tracker with 0, 1 or 100
\* calls and with no field or one field with 0..2 attempts.
SnapshotCalls == {0, 1, DAILY_LIMIT}

SnapshotRetries ==
    {<<>>} \cup
    {Put(<<>>, get_field_key(d, s), [NewInfo(d, s) EXCEPT !.attempts = a]) :
        d \in DocTypes, s \in {"front"}, a \in 0..max_attempts}

Snapshots ==
    {to_dict(n, IF n = 0 THEN NoTime ELSE 0, fr) :
        n \in SnapshotCalls, fr \in SnapshotRetries}

\* from_dict: total_calls is overwritten, last_call only by a stored time, and
\* every field of the dictionary gets a new FieldRetryInfo with its attempts.
from_dict_retries(fr, data) ==
    [k \in DOMAIN fr \cup DOMAIN data.field_retries |->
        IF k \in DOMAIN data.field_retries
        THEN [NewInfo(data.field_retries[k].document_type, data.field_retries[k].side)
                EXCEPT !.attempts = data.field_retries[k].attempts]
        ELSE fr[k]]

FromDict ==
    /\ \E data \in Snapshots :
         /\ total_calls' = data.total_calls
         /\ last_call' = IF data.last_call # NoTime THEN data.last_call ELSE last_call
         /\ field_retries' = from_dict_retries(field_retries, data)
    /\ ret' = Ret("from_dict", TRUE, "", 0)
    /\ UNCHANGED <<now, threads, uploadVars, submitVars>>

Tick ==
    /\ now < MaxTime
    /\ now' = now + 1
    /\ UNCHANGED <<trackerVars, threads, ret, uploadVars, submitVars>>

----------------------------------------------------------------------------
(* UsageTracker methods called from several threads *)

\* record_call and record_field_attempt take no lock, so a thread can be
\* switched out between the reads and the writes of one call. Each thread is at
\* one of these places: idle; in record_call before the can_make_call test
\* (rc_check), before the read of total_calls (rc_load), before the write of
\* total_calls (rc_store); in record_field_attempt before field_retries.get
\* (fa_get), before the store of a new FieldRetryInfo (fa_put), before the
\* can_retry test (fa_check), before the read of attempts (fa_load), before the
\* write of attempts (fa_store).
Threads == 1..MaxThreads

NoObject == 0

NewThread == [pc |-> "idle", tmp |-> 0, ref |-> NoObject, calls |-> 0]

\* The FieldRetryInfo objects made so far (heap, by the thread that made them),
\* the one field_retries holds for the key (in_dict), and the counts of calls
\* that returned success.
NewThreads(start_calls) ==
    [proc |-> [t \in Threads |-> NewThread], heap |-> <<>>, in_dict |-> NoObject,
     base_calls |-> start_calls, ok_calls |-> 0, ok_attempts |-> 0]

SharedKey == get_field_key("cnic", "front")

Goto(t, pc) == [threads EXCEPT !.proc[t].pc = pc]

ThreadCall(t) ==
    /\ threads.proc[t].pc = "idle"
    /\ threads.proc[t].calls < MaxCallsPerThread
    /\ \E pc \in {"rc_check", "fa_get"} :
          threads' = [threads EXCEPT !.proc[t].pc = pc, !.proc[t].calls = @ + 1]
    /\ UNCHANGED <<trackerVars, now, ret, uploadVars, submitVars>>

\* if not self.can_make_call: return False, ...
RcCheck(t) ==
    /\ threads.proc[t].pc = "rc_check"
    /\ IF ~can_make_call
       THEN /\ threads' = Goto(t, "idle")
            /\ ret' = RetK("record_call", "", FALSE, "API limit reached", t)
       ELSE /\ threads' = Goto(t, "rc_load")
            /\ UNCHANGED ret
    /\ UNCHANGED <<trackerVars, now, uploadVars, submitVars>>

\* self._stats.total_calls += 1: the read
RcLoad(t) ==
    /\ threads.proc[t].pc = "rc_load"
    /\ threads' = [threads EXCEPT !.proc[t].pc = "rc_store", !.proc[t].tmp = total_calls]
    /\ UNCHANGED <<trackerVars, now, ret, uploadVars, submitVars>>

\* self._stats.total_calls += 1: the write, then last_call and the return
RcStore(t) ==
    /\ threads.proc[t].pc = "rc_store"
    /\ total_calls' = threads.proc[t].tmp + 1
    /\ last_call' = now
    /\ threads' = [threads EXCEPT !.proc[t].pc = "idle", !.ok_calls = @ + 1]
    /\ ret' = RetK("record_call", "", TRUE, "", t)
    /\ UNCHANGED <<field_retries, now, uploadVars, submitVars>>

\* field_retries as the dict holding the object in_dict of the heap
DictOf(heap, in_dict) ==
    IF in_dict = NoObject THEN <<>> ELSE Put(<<>>, SharedKey, heap[in_dict])

\* retry_info = self._stats.field_retries.get(key)
FaGet(t) ==
    /\ threads.proc[t].pc = "fa_get"
    /\ threads' = [threads EXCEPT
                     !.proc[t].ref = threads.in_dict,
                     !.proc[t].pc = IF threads.in_dict = NoObject THEN "fa_put"
                                    ELSE "fa_check"]
    /\ UNCHANGED <<trackerVars, now, ret, uploadVars, submitVars>>

\* retry_info = FieldRetryInfo(...); self._stats.field_retries[key] = retry_info
FaPut(t) ==
    /\ threads.proc[t].pc = "fa_put"
    /\ LET heap == Put(threads.heap, t, NewInfo("cnic", "front"))
       IN  /\ threads' = [threads EXCEPT !.heap = heap, !.in_dict = t,
                                         !.proc[t].ref = t, !.proc[t].pc = "fa_check"]
           /\ field_retries' = DictOf(heap, t)
    /\ UNCHANGED <<total_calls, last_call, now, ret, uploadVars, submitVars>>

\* if not retry_info.can_retry: return False, ...
FaCheck(t) ==
    /\ threads.proc[t].pc = "fa_check"
    /\ IF field_attempt_refused(threads.heap[threads.proc[t].ref])
       THEN /\ threads' = Goto(t, "idle")
            /\ ret' = RetK("record_field_attempt", SharedKey, FALSE,
                           "Maximum retries", t)
       ELSE /\ threads' = Goto(t, "fa_load")
            /\ UNCHANGED ret
    /\ UNCHANGED <<trackerVars, now, uploadVars, submitVars>>

\* retry_info.attempts += 1: the read
FaLoad(t) ==
    /\ threads.proc[t].pc = "fa_load"
    /\ threads' = [threads EXCEPT
                     !.proc[t].pc = "fa_store",
                     !.proc[t].tmp = threads.heap[threads.proc[t].ref].attempts]
    /\ UNCHANGED <<trackerVars, now, ret, uploadVars, submitVars>>

\* retry_info.attempts += 1: the write, then last_attempt and the return
FaStore(t) ==
    /\ threads.proc[t].pc = "fa_store"
    /\ LET ref == threads.proc[t].ref
           heap == [threads.heap EXCEPT ![ref].attempts = threads.proc[t].tmp + 1,
                                        ![ref].last_attempt = now]
       IN  /\ threads' = [threads EXCEPT !.heap = heap, !.proc[t].pc = "idle",
                                         !.ok_attempts = @ + 1]
           /\ field_retries' = DictOf(heap, threads.in_dict)
    /\ ret' = RetK("record_field_attempt", SharedKey, TRUE, "", t)
    /\ UNCHANGED <<total_calls, last_call, now, uploadVars, submitVars>>

----------------------------------------------------------------------------
(* The upload flow (render_document_upload) and the /analyze endpoint *)

\* _call_with_retry tries each model up to max_retries times: with a client it
\* makes between one attempt and GEMINI_MODELS_COUNT * max_retries attempts.
CallWithRetryAttempts == 1..(GEMINI_MODELS_COUNT * max_retries)

storage_key(doc_key, side) == doc_key \o "_" \o side

upload_gate_mut_open == TRUE

upload_gate == can_make_call

AnalysesOf(log, key) == IF key \in DOMAIN log THEN log[key] ELSE 0

\* The log of ocr.analyze_document calls after one more for the key
started(log, key) ==
    [k \in DOMAIN log \cup {key} |-> IF k = key THEN AnalysesOf(log, key) + 1 ELSE log[k]]

\* The "Analyze" button of one document side. It is rendered only while no
\* result is stored for the side and can_retry_field allows a retry.
AnalyzeClickOn(d, s) ==
    /\ storage_key(d, s) \notin documents
    /\ can_retry_field(d, s)[1]
    /\ UNCHANGED <<now, threads, api_key_set, ocr, submitVars>>
    /\ IF ~upload_gate
       THEN /\ ret' = RetK("analyze_click", get_field_key(d, s), FALSE,
                           "API limit reached", 0)
            /\ attempts' = 0
            /\ UNCHANGED <<trackerVars, documents, analyses>>
       ELSE /\ field_retries' = record_field_attempt_retries(d, s)
            /\ IF ~record_field_attempt_result(d, s).ok
               THEN /\ ret' = [record_field_attempt_result(d, s) EXCEPT
                                 !.op = "analyze_click", !.key = get_field_key(d, s)]
                    /\ attempts' = 0
                    /\ UNCHANGED <<total_calls, last_call, documents, analyses>>
               ELSE IF ~api_key_set
               THEN /\ ret' = RetK("analyze_click", get_field_key(d, s), FALSE,
                                   "Gemini API not configured", 0)
                    /\ attempts' = 0
                    /\ UNCHANGED <<total_calls, last_call, documents, analyses>>
               ELSE /\ record_call_effect
                    /\ \E k \in CallWithRetryAttempts : attempts' = k
                    /\ analyses' = started(analyses, get_field_key(d, s))
                    /\ documents' = documents \cup {storage_key(d, s)}
                    /\ ret' = RetK("analyze_click", get_field_key(d, s), TRUE,
                                   "stored", 0)

AnalyzeClick == \E d \in DocTypes, s \in Sides : AnalyzeClickOn(d, s)

\* The "Re-upload" button: del st.session_state.documents[storage_key]
Reupload ==
    \E d \in DocTypes, s \in Sides :
        /\ storage_key(d, s) \in documents
        /\ documents' = documents \ {storage_key(d, s)}
        /\ ret' = RetK("reupload", get_field_key(d, s), TRUE, "", 0)
        /\ UNCHANGED <<trackerVars, now, threads, attempts, api_key_set, ocr, analyses, submitVars>>

\* POST /analyze: decodes the image, then runs the vision analysis. With no key
\* the analyzer's constructor raises and vision_analyze_async returns its
\* built-in result; the usage tracker is neither read nor written.
ApiAnalyze ==
    /\ \E image_ok \in BOOLEAN :
          IF ~image_ok
          THEN /\ attempts' = 0
               /\ ret' = Ret("api_analyze", FALSE, "INVALID_IMAGE", 0)
          ELSE IF ~api_key_set
          THEN /\ attempts' = 0
               /\ ret' = Ret("api_analyze", TRUE, "fallback", 0)
          ELSE /\ \E k \in 1..MaxVisionAttempts : attempts' = k
               /\ ret' = Ret("api_analyze", TRUE, "analyzed", 0)
    /\ UNCHANGED <<trackerVars, now, threads, documents, api_key_set, ocr, analyses, submitVars>>

----------------------------------------------------------------------------
(* DerivSubmissionManager: records, the registration endpoint and its stand-in *)

None == <<>>
Some(x) == <<x>>

\* Document ids are 4-tuples: a generated id keeps what it was hashed from, ids
\* of the demo data and ids assigned by the live endpoint are plain tokens.
Token(name) == <<name, "", "", 0>>

_generate_document_id(document_type, side, t) == <<"DOC_", document_type, side, t>>

mock_status_mut_gt(issue_score) ==
    IF issue_score > 80 THEN "accepted"
    ELSE IF issue_score >= 50 THEN "needs_review"
    ELSE "rejected"

mock_status(issue_score) ==
    IF issue_score >= 80 THEN "accepted"
    ELSE IF issue_score >= 50 THEN "needs_review"
    ELSE "rejected"

_mock_document_upload_response(document_type, issue_score, doc_id) ==
    [status |-> mock_status(issue_score), document_id |-> doc_id]

status_map(status_str) ==
    IF status_str = "accepted" THEN "ACCEPTED"
    ELSE IF status_str = "rejected" THEN "REJECTED"
    ELSE IF status_str = "needs_review" THEN "NEEDS_REVIEW"
    ELSE "PENDING"

messages(status) ==
    IF status = "ACCEPTED" THEN "Document accepted for verification"
    ELSE IF status = "NEEDS_REVIEW" THEN "Document flagged for manual compliance review"
    ELSE IF status = "REJECTED"
    THEN "Document rejected - please resubmit with better quality"
    ELSE "Document submitted, awaiting processing"

\* What the registration endpoint did in one call: kind "none" is a failed call
\* (document_upload returns None), "error" a response carrying an error, "ok" a
\* response whose document_upload object has status (or "" when the key is
\* missing) and document_id (or "" when the key is missing).
Outcome(kind, status, doc_id) == [kind |-> kind, status |-> status, doc_id |-> doc_id]

used_real_api(is_configured, outcome) == is_configured /\ outcome.kind = "ok"

mismatch_override_mut_rejected(status, mismatches) ==
    IF mismatches # <<>> /\ status # "REJECTED" THEN "NEEDS_REVIEW" ELSE status

mismatch_override(status, mismatches) ==
    IF mismatches # <<>> THEN "NEEDS_REVIEW" ELSE status

final_status_mut_mock_only(real, status_str, mismatches) ==
    IF real THEN status_map(status_str)
    ELSE mismatch_override(status_map(status_str), mismatches)

final_status(real, status_str, mismatches) ==
    mismatch_override(status_map(status_str), mismatches)

can_proceed(status) == status \in {"ACCEPTED", "NEEDS_REVIEW"}

\* prepare_and_submit as a function of its arguments, the clock reading, the
\* client's configuration and the endpoint's outcome: the record it appends and
\* the dict it returns.
prepare_and_submit(a, t, is_configured, outcome) ==
    LET generated == _generate_document_id(a.document_type, a.side, t)
        real == used_real_api(is_configured, outcome)
        doc_id == IF real /\ outcome.doc_id # "" THEN Token(outcome.doc_id)
                  ELSE generated
        deriv_response ==
            IF real
            THEN [status |-> outcome.status, document_id |-> doc_id]
            ELSE _mock_document_upload_response(a.document_type, a.issue_score, doc_id)
        status_str == IF deriv_response.status = "" THEN "pending"
                      ELSE deriv_response.status
        status == final_status(real, status_str, a.mismatches)
        record ==
            [document_id |-> doc_id,
             document_type |-> a.document_type,
             side |-> a.side,
             country_code |-> a.country_code,
             status |-> status,
             quality_score |-> a.issue_score,
             risk_level |-> a.risk_level,
             risk_score |-> a.risk_score,
             risk_factors |-> a.risk_factors,
             form_data |-> a.form_data,
             ocr_data |-> a.ocr_data,
             mismatches |-> a.mismatches,
             message |-> messages(status),
             timestamp |-> t,
             reviewer_action |-> None,
             reviewer_notes |-> ""]
        result ==
            [success |-> status # "REJECTED",
             document_id |-> doc_id,
             status |-> status,
             message |-> record.message,
             can_proceed |-> can_proceed(status),
             used_real_api |-> real,
             deriv_response |-> deriv_response]
    IN  [record |-> record, result |-> result]

DemoRecord(id, document_type, side, country_code, status, quality_score, risk_level,
           risk_score, risk_factors, form_data, ocr_data, mismatches, message, timestamp) ==
    [document_id |-> Token(id), document_type |-> document_type, side |-> side,
     country_code |-> country_code, status |-> status,
     quality_score |-> quality_score, risk_level |-> risk_level,
     risk_score |-> risk_score, risk_factors |-> risk_factors,
     form_data |-> form_data, ocr_data |-> ocr_data, mismatches |-> mismatches,
     message |-> message, timestamp |-> timestamp,
     reviewer_action |-> None, reviewer_notes |-> ""]

\* The demo submissions of seed_demo_data, created at clock reading t.
DemoData(t) == <<
    DemoRecord("DOC-PK-001", "cnic", "front", "PK", "ACCEPTED", 92, "LOW", 12,
        <<>>,
        [full_name |-> "Muhammad Ahmed Khan", cnic |-> "35202-1234567-1", date_of_birth |-> "1990-05-15", city |-> "Lahore"],
        [name_english |-> "Muhammad Ahmed Khan", cnic_number |-> "35202-1234567-1", date_of_birth |-> "1990-05-15", gender |-> "M"],
        <<>>,
        "Document accepted for verification", t - 3600),
    DemoRecord("DOC-PK-002", "cnic", "back", "PK", "ACCEPTED", 88, "LOW", 8,
        <<>>,
        [address_line1 |-> "House 45, Street 12, DHA Phase 5", city |-> "Lahore"],
        [permanent_address |-> "House 45, Street 12, DHA Phase 5, Lahore"],
        <<>>,
        "Document accepted for verification", t - 3500),
    DemoRecord("DOC-PK-003", "utility_bill", "front", "PK", "ACCEPTED", 85, "LOW", 10,
        <<>>,
        [full_name |-> "Muhammad Ahmed Khan", address_line1 |-> "House 45, Street 12, DHA Phase 5"],
        [account_holder_name |-> "Muhammad Ahmed Khan", address |-> "House 45, Street 12, DHA Phase 5, Lahore", bill_date |-> "2026-01-15", company_name |-> "LESCO"],
        <<>>,
        "Document accepted for verification", t - 3400),
    DemoRecord("DOC-AE-001", "emirates_id", "front", "AE", "NEEDS_REVIEW", 80, "MEDIUM", 42,
        <<[factor |-> "name_variation", detail |-> "Arabic/English transliteration difference", severity |-> "medium"]>>,
        [full_name |-> "Mohammed Al Maktoum", emirates_id |-> "784-1990-1234567-1", date_of_birth |-> "1990-06-15", city |-> "Dubai"],
        [name_english |-> "Mohammad Al Maktoum", emirates_id_number |-> "784-1990-1234567-1", name_arabic |-> "(arabic)", nationality |-> "UAE"],
        <<[field |-> "full_name", form_value |-> "Mohammed Al Maktoum",
           document_value |-> "Mohammad Al Maktoum", message |-> "Name transliteration variation"]>>,
        "Document flagged for manual compliance review", t - 2800),
    DemoRecord("DOC-AE-002", "emirates_id", "back", "AE", "ACCEPTED", 86, "LOW", 10,
        <<>>,
        [date_of_birth |-> "1990-06-15", gender |-> "Male"],
        [date_of_birth |-> "1990-06-15", gender |-> "M", card_number |-> "784-1990-1234567-1", expiry_date |-> "2028-06-14"],
        <<>>,
        "Document accepted for verification", t - 2700),
    DemoRecord("DOC-GB-001", "passport", "photo_page", "GB", "ACCEPTED", 95, "LOW", 5,
        <<>>,
        [first_name |-> "James", last_name |-> "Wilson", date_of_birth |-> "1988-03-10"],
        [given_names |-> "James Edward", surname |-> "Wilson", date_of_birth |-> "1988-03-10", passport_number |-> "533456789", expiry_date |-> "2028-11-20", nationality |-> "British"],
        <<>>,
        "Document accepted for verification", t - 2000),
    DemoRecord("DOC-GB-002", "driving_license", "front", "GB", "ACCEPTED", 90, "LOW", 8,
        <<>>,
        [first_name |-> "James", last_name |-> "Wilson", date_of_birth |-> "1988-03-10"],
        [name |-> "James E Wilson", date_of_birth |-> "1988-03-10", license_number |-> "WILSO803109JE9AB", expiry_date |-> "2030-03-10"],
        <<>>,
        "Document accepted for verification", t - 1900),
    DemoRecord("DOC-PK-004", "cnic", "front", "PK", "REJECTED", 25, "HIGH", 72,
        <<[factor |-> "quality_anomaly", detail |-> "Very low quality - possible intentional obscuring", severity |-> "high"], [factor |-> "missing_fields", detail |-> "Could not extract CNIC number or name", severity |-> "high"]>>,
        [full_name |-> "Ali Hassan", cnic |-> "42101-9876543-2"],
        <<>>,
        <<>>,
        "Document rejected - please resubmit with better quality", t - 1500),
    DemoRecord("DOC-AE-003", "emirates_id", "front", "AE", "NEEDS_REVIEW", 72, "HIGH", 65,
        <<[factor |-> "data_mismatch", detail |-> "DOB mismatch between form and document", severity |-> "high"], [factor |-> "name_inconsistency", detail |-> "Name differs significantly", severity |-> "medium"]>>,
        [full_name |-> "Fatima Al Rashid", emirates_id |-> "784-1985-9876543-2", date_of_birth |-> "1985-12-01", city |-> "Abu Dhabi"],
        [name_english |-> "Fatimah Al Rasheed", emirates_id_number |-> "784-1985-9876543-2", name_arabic |-> "(arabic)", nationality |-> "UAE"],
        <<[field |-> "full_name", form_value |-> "Fatima Al Rashid",
           document_value |-> "Fatimah Al Rasheed", message |-> "Name transliteration mismatch"],
          [field |-> "date_of_birth", form_value |-> "1985-12-01",
           document_value |-> "1985-01-12", message |-> "DOB mismatch - possible day/month swap"]>>,
        "Document flagged for manual compliance review", t - 1200),
    DemoRecord("DOC-GB-003", "utility_bill", "front", "GB", "ACCEPTED", 87, "LOW", 10,
        <<>>,
        [first_name |-> "James", last_name |-> "Wilson", address_line1 |-> "14 Kensington Gardens, London"],
        [account_holder_name |-> "James Wilson", address |-> "14 Kensington Gardens, London W8 4PX", bill_date |-> "2026-01-28", company_name |-> "British Gas"],
        <<>>,
        "Document accepted for verification", t - 800),
    DemoRecord("DOC-PK-005", "cnic", "back", "PK", "NEEDS_REVIEW", 75, "MEDIUM", 38,
        <<[factor |-> "data_mismatch", detail |-> "Address differs from form", severity |-> "medium"]>>,
        [address_line1 |-> "Flat 7, Block C, Gulberg III", city |-> "Lahore"],
        [permanent_address |-> "House 12, Model Town, Lahore"],
        <<[field |-> "address_line1", form_value |-> "Flat 7, Block C, Gulberg III",
           document_value |-> "House 12, Model Town, Lahore", message |-> "Address on document doesn't match form"]>>,
        "Document flagged for manual compliance review", t - 500)
>>

DemoCount == Len(DemoData(0))

Seeded(h) == Len(h) > 0 /\ h[1].document_id = Token("DOC-PK-001")

\* The records of h that prepare_and_submit created.
NewCount(h) == IF Seeded(h) THEN Len(h) - DemoCount ELSE Len(h)

----------------------------------------------------------------------------
(* Inputs of the model *)

DobMismatch ==
    [field |-> "date_of_birth", form_value |-> "1985-01-12",
     document_value |-> "1985-12-01", message |-> "DOB mismatch"]

MismatchFactor ==
    [factor |-> "data_mismatch", detail |-> "DOB mismatch", severity |-> "high"]

CleanCase ==
    [mismatches |-> <<>>, risk_level |-> "LOW", risk_score |-> 5,
     risk_factors |-> <<>>,
     form_data |-> [date_of_birth |-> "1985-12-01"],
     ocr_data |-> [date_of_birth |-> "1985-12-01"]]

MismatchCase ==
    [mismatches |-> <<DobMismatch>>, risk_level |-> "HIGH", risk_score |-> 65,
     risk_factors |-> <<MismatchFactor>>,
     form_data |-> [date_of_birth |-> "1985-01-12"],
     ocr_data |-> [date_of_birth |-> "1985-12-01"]]

Cases == {CleanCase, MismatchCase}

Args(d, s, score, c) ==
    [document_type |-> d, side |-> s, country_code |-> "PK", issue_score |-> score,
     mismatches |-> c.mismatches, risk_level |-> c.risk_level,
     risk_score |-> c.risk_score, risk_factors |-> c.risk_factors,
     form_data |-> c.form_data, ocr_data |-> c.ocr_data]

Scores == {30, 49, 50, 79, 80, 95}
LeanScores == {65}

LiveStatuses == {"accepted", "rejected", "needs_review", "pending", "verified", ""}
LiveIds == {"", "LIVE-1"}

Outcomes ==
    {Outcome("none", "", ""), Outcome("error", "", "")}
        \cup {Outcome("ok", st, id) : st \in LiveStatuses, id \in LiveIds}

LeanOutcomes == {Outcome("none", "", ""), Outcome("ok", "rejected", "LIVE-1")}

NotCalled == Outcome("none", "", "")

----------------------------------------------------------------------------
(* DerivSubmissionManager operations *)

IndexOf(h, id) ==
    IF \E i \in 1..Len(h) : h[i].document_id = id
    THEN CHOOSE i \in 1..Len(h) :
            /\ h[i].document_id = id
            /\ \A j \in 1..(i - 1) : h[j].document_id # id
    ELSE 0

append_record_mut_upsert(h, record) ==
    IF IndexOf(h, record.document_id) = 0 THEN Append(h, record)
    ELSE [h EXCEPT ![IndexOf(h, record.document_id)] = record]

append_record(h, record) == Append(h, record)

ListFields == {"mismatches", "risk_factors"}

\* The list arguments the record may share with the caller: "x or []" hands a
\* non-empty list on as the object it is and replaces an empty one by a fresh
\* list. The record's constructor keeps the list object itself or a shallow copy
\* of it (copies), and in both cases the entries the caller built.
PassedRefs(a, idx) ==
    {[idx |-> idx, field |-> f, list_shared |-> ~copies] :
        f \in {g \in ListFields : a[g] # <<>>}}

SubmitWith(ScoreSet, CaseSet, OutcomeSet, limit, keep) ==
    /\ NewCount(submission_history) < limit
    /\ \E d \in DocTypes, s \in Sides, score \in ScoreSet, c \in CaseSet :
       \E outcome \in (IF configured THEN OutcomeSet ELSE {NotCalled}) :
         LET a == Args(d, s, score, c)
             r == prepare_and_submit(a, now, configured, outcome)
         IN  /\ submission_history' = append_record(submission_history, r.record)
             /\ ret' = [op |-> "prepare_and_submit", args |-> a, outcome |-> outcome,
                        at |-> now, result |-> r.result]
             /\ caller_refs' =
                   IF keep
                   THEN caller_refs \cup PassedRefs(a, Len(submission_history) + 1)
                   ELSE caller_refs
    /\ UNCHANGED <<trackerVars, uploadVars, now, threads, configured, copies>>

PrepareAndSubmit ==
    SubmitWith(Scores, Cases, Outcomes, MaxSingleSubmissions, FALSE)

SubmitLean ==
    SubmitWith(LeanScores, {CleanCase}, LeanOutcomes, MaxSubmissions, FALSE)

reviewed_status(status, action) ==
    IF action = "approve" THEN "ACCEPTED"
    ELSE IF action = "reject" THEN "REJECTED"
    ELSE status

reviewed(r, action, notes) ==
    [r EXCEPT !.reviewer_action = Some(action),
              !.reviewer_notes = notes,
              !.status = reviewed_status(r.status, action)]

review_submission_mut_last(h, document_id, action, notes) ==
    LET i == IF IndexOf(h, document_id) = 0 THEN Len(h) ELSE IndexOf(h, document_id)
    IN  IF i = 0 THEN h ELSE [h EXCEPT ![i] = reviewed(h[i], action, notes)]

review_submission(h, document_id, action, notes) ==
    LET i == IndexOf(h, document_id)
    IN  IF i = 0 THEN h ELSE [h EXCEPT ![i] = reviewed(h[i], action, notes)]

IsPending(r) == r.status = "NEEDS_REVIEW" /\ r.reviewer_action = None

get_pending_reviews(h) == SelectSeq(h, IsPending)

\* The reviewer's inputs: the dashboard's two buttons with their notes, and a
\* caller passing another action string.
ButtonInputs ==
    {<<"approve", "Manually approved by compliance officer">>,
     <<"reject", "Rejected during manual review">>}

OtherInputs == {<<"escalate", "">>}

\* The ids a reviewer names: the ids of the records that prepare_and_submit
\* created, one id of the demo data and an unknown id.
QueryIds(h) ==
    {h[i].document_id : i \in {j \in 1..Len(h) : j > Len(h) - NewCount(h)}}
        \cup {Token("DOC-AE-001"), Token("DOC-UNKNOWN")}

\* The review calls of the model: the dashboard's buttons on any of these ids,
\* and a call with another action string on the demo record.
ReviewCalls(h) ==
    {<<id, in[1], in[2]>> : id \in QueryIds(h), in \in ButtonInputs}
        \cup {<<Token("DOC-AE-001"), in[1], in[2]>> : in \in OtherInputs}

ReviewOn(document_id, action, notes) ==
    /\ submission_history' =
           review_submission(submission_history, document_id, action, notes)
    /\ ret' = [op |-> "review_submission",
               result |-> IndexOf(submission_history, document_id) # 0]
    /\ UNCHANGED <<trackerVars, uploadVars, now, threads, configured, caller_refs, copies>>

ReviewSubmission ==
    \E c \in ReviewCalls(submission_history) : ReviewOn(c[1], c[2], c[3])

get_submission_status(h, document_id) ==
    LET i == IndexOf(h, document_id)
    IN  IF i = 0
        THEN [found |-> FALSE, error |-> <<"Document ", document_id, " not found">>]
        ELSE [found |-> TRUE, status |-> h[i].status, message |-> h[i].message,
              quality_score |-> h[i].quality_score]

GetSubmissionStatusOn(document_id) ==
    /\ ret' = [op |-> "get_submission_status",
               result |-> get_submission_status(submission_history, document_id)]
    /\ UNCHANGED <<trackerVars, uploadVars, now, threads, submitVars>>

GetSubmissionStatus ==
    \E id \in QueryIds(submission_history) : GetSubmissionStatusOn(id)

GetPendingReviews ==
    /\ ret' = [op |-> "get_pending_reviews",
               result |-> get_pending_reviews(submission_history)]
    /\ UNCHANGED <<trackerVars, uploadVars, now, threads, submitVars>>

SeedDemoData ==
    /\ submission_history' =
           IF submission_history # <<>> THEN submission_history
           ELSE submission_history \o DemoData(now)
    /\ ret' = [op |-> "seed_demo_data"]
    /\ UNCHANGED <<trackerVars, uploadVars, now, threads, configured, caller_refs, copies>>


----------------------------------------------------------------------------
(* review_submission called from several dashboard sessions *)

\* get_submission_manager hands every session the same manager; a session runs
\* in its own thread, and review_submission takes no lock: its loop and its
\* three assignments are separate steps of the calling thread. A reviewer
\* thread holds its position, its call <<document_id, action, notes>> and the
\* index of the record its loop stopped at; last holds, per document_id, the
\* call that returned last.
PendingDemoIds == {Token("DOC-AE-001"), Token("DOC-AE-003")}

NewReviewers ==
    [proc |-> [t \in Threads |-> [pc |-> "idle", call |-> <<>>, index |-> 0, calls |-> 0]],
     last |-> [id \in PendingDemoIds |-> None]]

RvCall(t) ==
    /\ threads.proc[t].pc = "idle"
    /\ threads.proc[t].calls < MaxCallsPerThread
    /\ \E id \in PendingDemoIds, in \in ButtonInputs :
         threads' = [threads EXCEPT !.proc[t] =
                        [pc |-> "rv_action", call |-> <<id, in[1], in[2]>>,
                         index |-> IndexOf(submission_history, id), calls |-> @.calls + 1]]
    /\ UNCHANGED <<trackerVars, uploadVars, now, ret, submitVars>>

\* record.reviewer_action = action
RvSetAction(t) ==
    /\ threads.proc[t].pc = "rv_action"
    /\ submission_history' = [submission_history EXCEPT
            ![threads.proc[t].index].reviewer_action = Some(threads.proc[t].call[2])]
    /\ threads' = [threads EXCEPT !.proc[t].pc = "rv_notes"]
    /\ UNCHANGED <<trackerVars, uploadVars, now, ret, configured, caller_refs, copies>>

\* record.reviewer_notes = notes
RvSetNotes(t) ==
    /\ threads.proc[t].pc = "rv_notes"
    /\ submission_history' = [submission_history EXCEPT
            ![threads.proc[t].index].reviewer_notes = threads.proc[t].call[3]]
    /\ threads' = [threads EXCEPT !.proc[t].pc = "rv_status"]
    /\ UNCHANGED <<trackerVars, uploadVars, now, ret, configured, caller_refs, copies>>

\* record.status = ... ; return True
RvSetStatus(t) ==
    /\ threads.proc[t].pc = "rv_status"
    /\ submission_history' = [submission_history EXCEPT
            ![threads.proc[t].index].status = reviewed_status(@, threads.proc[t].call[2])]
    /\ threads' = [threads EXCEPT !.proc[t].pc = "idle",
                                  !.last[threads.proc[t].call[1]] = Some(threads.proc[t].call)]
    /\ ret' = [op |-> "review_submission", result |-> TRUE]
    /\ UNCHANGED <<trackerVars, uploadVars, now, configured, caller_refs, copies>>

----------------------------------------------------------------------------
(* Callers that keep the objects they passed in or were handed *)

SubmitKeepingRefs ==
    SubmitWith(LeanScores, Cases, {NotCalled}, MaxSingleSubmissions, TRUE)

Edited(entry) ==
    IF "message" \in DOMAIN entry THEN [entry EXCEPT !.message = "edited"]
    ELSE [entry EXCEPT !.detail = "edited"]

ExtraEntry(field) ==
    IF field = "mismatches" THEN [DobMismatch EXCEPT !.field = "full_name"]
    ELSE [MismatchFactor EXCEPT !.factor = "late_entry"]

\* The caller changes an entry of a list it passed to prepare_and_submit
\* (mismatches[j]["message"] = ...). The entry is the object the record holds.
CallerEditsEntry ==
    /\ \E ref \in caller_refs :
         \E j \in 1..Len(submission_history[ref.idx][ref.field]) :
            submission_history' =
                [submission_history EXCEPT ![ref.idx][ref.field][j] = Edited(@)]
    /\ ret' = [op |-> "caller_edits_entry"]
    /\ UNCHANGED <<trackerVars, uploadVars, now, threads, configured, caller_refs, copies>>

\* The caller appends to a list it passed: the record sees the new entry when
\* its constructor kept the list object, and not when it copied the list.
CallerAppends ==
    /\ \E ref \in caller_refs :
         /\ Len(submission_history[ref.idx][ref.field]) < MaxListLen
         /\ submission_history' =
               IF ref.list_shared
               THEN [submission_history EXCEPT
                        ![ref.idx][ref.field] = Append(@, ExtraEntry(ref.field))]
               ELSE submission_history
    /\ ret' = [op |-> "caller_appends"]
    /\ UNCHANGED <<trackerVars, uploadVars, now, threads, configured, caller_refs, copies>>

\* get_all_submissions returns self.submission_history, the list itself.
get_all_submissions(h) == h

\* A caller of get_all_submissions empties a list field of a record it was given
\* (subs[i].mismatches.clear()).
ReturnedListEdit ==
    /\ \E i \in 1..Len(get_all_submissions(submission_history)), f \in ListFields :
         submission_history' = [get_all_submissions(submission_history) EXCEPT ![i][f] = <<>>]
    /\ ret' = [op |-> "get_all_submissions"]
    /\ UNCHANGED <<trackerVars, uploadVars, now, threads, configured, caller_refs, copies>>

----------------------------------------------------------------------------
(* GeminiOCR: kyc-agent/backend/ocr_service.py *)

\* The text of an exception: the words the code looks for, and the number after
\* "retry in" when there is one.
ErrorText(words, retry_in) == [words |-> words, retry_in |-> retry_in]

LowerWord(w) ==
    CASE w = "Quota" -> "quota"
      [] w = "Not Found" -> "not found"
      [] OTHER -> w

Contains(error_str, word) == word \in error_str.words

ContainsLower(error_str, word) == word \in {LowerWord(w) : w \in error_str.words}

is_rate_limit(error_str) ==
    Contains(error_str, "429") \/ ContainsLower(error_str, "quota")

is_not_found(error_str) ==
    Contains(error_str, "404") \/ ContainsLower(error_str, "not found")

QuotaShort == ErrorText({"429", "Quota"}, Some(5))
QuotaAtLimit == ErrorText({"429"}, Some(10))
QuotaNoHint == ErrorText({"quota"}, None)
ModelNotFound == ErrorText({"404", "Not Found"}, None)
ServerError == ErrorText({"500"}, None)
EmptyError == ErrorText({}, None)

EndpointErrors ==
    {QuotaShort, QuotaAtLimit, QuotaNoHint, ModelNotFound, ServerError, EmptyError}

\* What generate_content did in one attempt: it raised error, or it returned a
\* response whose text is a document analysis, a JSON text _parse_response
\* chokes on, or no text at all (None).
Failure(error) == [ok |-> FALSE, error |-> error, text |-> ""]
Success(text) == [ok |-> TRUE, error |-> ErrorText({}, None), text |-> text]

ResponseTexts == {"document", "garbage", "none"}

EndpointOutcomes ==
    {Failure(e) : e \in EndpointErrors} \cup {Success(t) : t \in ResponseTexts}

NewGeminiOCR ==
    [pc |-> "idle", model |-> 1, attempt |-> 0, trace |-> <<>>,
     _last_error |-> None, _call_count |-> 0, analyses |-> 0]

is_configured == api_key_set

\* The except branch of _call_with_retry after an error in attempt `attempt`
\* (0-based) on a model: the seconds slept and whether the retry loop of the
\* model goes on ("continue") or is left ("break").
after_error_mut_retry_in_place(error_str, attempt) ==
    IF is_rate_limit(error_str)
    THEN IF error_str.retry_in # None /\ error_str.retry_in[1] < 10
         THEN [slept |-> error_str.retry_in[1] + 1, next |-> "again"]
         ELSE [slept |-> 0, next |-> "break"]
    ELSE IF is_not_found(error_str) THEN [slept |-> 0, next |-> "break"]
    ELSE [slept |-> IF attempt < max_retries - 1 THEN 1 ELSE 0, next |-> "continue"]

after_error_mut_not_found_retries(error_str, attempt) ==
    IF is_rate_limit(error_str)
    THEN IF error_str.retry_in # None /\ error_str.retry_in[1] < 10
         THEN [slept |-> error_str.retry_in[1] + 1, next |-> "continue"]
         ELSE [slept |-> 0, next |-> "break"]
    ELSE [slept |-> IF attempt < max_retries - 1 THEN 1 ELSE 0, next |-> "continue"]

after_error(error_str, attempt) ==
    IF is_rate_limit(error_str)
    THEN IF error_str.retry_in # None /\ error_str.retry_in[1] < 10
         THEN [slept |-> error_str.retry_in[1] + 1, next |-> "continue"]
         ELSE [slept |-> 0, next |-> "break"]
    ELSE IF is_not_found(error_str) THEN [slept |-> 0, next |-> "break"]
    ELSE [slept |-> IF attempt < max_retries - 1 THEN 1 ELSE 0, next |-> "continue"]

\* The position of the two nested loops after the except branch: the next
\* attempt on the same model, the first attempt on the next model, or past the
\* last model (model = GEMINI_MODELS_COUNT + 1).
next_position(model, attempt, next) ==
    IF next = "again" THEN [model |-> model, attempt |-> attempt]
    ELSE IF next = "continue" /\ attempt + 1 < max_retries
    THEN [model |-> model, attempt |-> attempt + 1]
    ELSE [model |-> model + 1, attempt |-> 0]

\* The OCRResult of analyze_document: success, the type of its first issue and
\* its error_message.
OCRResult(success, issue_type, error_message) ==
    [success |-> success, issue_type |-> issue_type, error_message |-> error_message]

not_configured_result == OCRResult(FALSE, "ERROR", "No API key configured")

\* analyze_document after _call_with_retry returned None
failed_result(last_error) ==
    IF last_error = None \/ last_error[1] = EmptyError
    THEN OCRResult(FALSE, "ERROR", "All API models failed")
    ELSE IF ContainsLower(last_error[1], "quota") \/ Contains(last_error[1], "429")
    THEN OCRResult(FALSE, "RATE_LIMIT", "Rate limit exceeded - please wait and retry")
    ELSE OCRResult(FALSE, "ERROR", last_error[1])

\* analyze_document after _call_with_retry returned a text: the parsed result,
\* or the result built by the except branch when _parse_response raises.
parsed_result(text) ==
    IF text = "document" THEN OCRResult(TRUE, "", "")
    ELSE OCRResult(FALSE, "ERROR", "'str' object has no attribute 'get'")

analyze_result(text, last_error) ==
    IF text = "none" THEN failed_result(last_error) ELSE parsed_result(text)

\* analyze_document up to its call of _call_with_retry
AnalyzeDocumentStart ==
    /\ ocr.pc = "idle"
    /\ ocr.analyses < MaxAnalyses
    /\ IF ~is_configured
       THEN /\ ocr' = [ocr EXCEPT !.analyses = @ + 1, !.trace = <<>>]
            /\ ret' = [op |-> "analyze_document", result |-> not_configured_result,
                       exhausted |-> FALSE]
       ELSE /\ ocr' = [ocr EXCEPT !.analyses = @ + 1, !.pc = "calling", !.model = 1,
                                  !.attempt = 0, !.trace = <<>>]
            /\ ret' = [op |-> "_call_with_retry"]
    /\ UNCHANGED <<trackerVars, now, threads, documents, attempts, api_key_set, analyses, submitVars>>

\* One pass through the body of the retry loop of _call_with_retry, and, when
\* it is the last one, the rest of analyze_document.
EndpointAttempt ==
    /\ ocr.pc = "calling"
    /\ \E outcome \in EndpointOutcomes :
         LET after == after_error(outcome.error, ocr.attempt)
             pos == next_position(ocr.model, ocr.attempt, after.next)
             entry == [model |-> ocr.model, attempt |-> ocr.attempt,
                       outcome |-> outcome,
                       slept |-> IF outcome.ok THEN 0 ELSE after.slept]
             last_error == IF outcome.ok THEN ocr._last_error ELSE Some(outcome.error)
             exhausted == ~outcome.ok /\ pos.model > GEMINI_MODELS_COUNT
         IN  IF outcome.ok \/ exhausted
             THEN /\ ocr' = [ocr EXCEPT !.pc = "idle",
                                        !.trace = Append(@, entry),
                                        !._last_error = last_error,
                                        !._call_count = IF outcome.ok THEN @ + 1 ELSE @]
                  /\ ret' = [op |-> "analyze_document",
                             result |-> analyze_result(IF outcome.ok THEN outcome.text
                                                       ELSE "none", last_error),
                             exhausted |-> exhausted]
             ELSE /\ ocr' = [ocr EXCEPT !.model = pos.model, !.attempt = pos.attempt,
                                        !.trace = Append(@, entry),
                                        !._last_error = last_error]
                  /\ ret' = [op |-> "_call_with_retry"]
    /\ UNCHANGED <<trackerVars, now, threads, documents, attempts, api_key_set, analyses, submitVars>>

----------------------------------------------------------------------------
(* Risk engine: backend/risk_scorer.py *)

\* Values of the extracted and the form fields: a text is a sequence of
\* one-character strings, JNull is a JSON null (Python None).
Str(chars) == [type |-> "str", chars |-> chars]

JNull == [type |-> "null"]

IsStr(v) == v.type = "str"

Truthy(v) == IsStr(v) /\ v.chars # <<>>

\* dict.get(key, default)
Get(d, key, default) == IF key \in DOMAIN d THEN d[key] ELSE default

\* a or b
Or(a, b) == IF Truthy(a) THEN a ELSE b

LowerChar(c) ==
    CASE c = "A" -> "a"
      [] c = "L" -> "l"
      [] c = "N" -> "n"
      [] c = "O" -> "o"
      [] c = "E" -> "e"
      [] c = "U" -> "u"
      [] OTHER -> c

lower(chars) == [i \in 1..Len(chars) |-> LowerChar(chars[i])]

RECURSIVE lstrip(_)
lstrip(chars) ==
    IF chars # <<>> /\ Head(chars) = " " THEN lstrip(Tail(chars)) ELSE chars

RECURSIVE rstrip(_)
rstrip(chars) ==
    IF chars # <<>> /\ chars[Len(chars)] = " "
    THEN rstrip(SubSeq(chars, 1, Len(chars) - 1))
    ELSE chars

strip(chars) == rstrip(lstrip(chars))

NotSpace(c) == c # " "

\* set(name.replace(" ", ""))
char_set(chars) == {SelectSeq(chars, NotSpace)[i] : i \in 1..Len(SelectSeq(chars, NotSpace))}

\* str(v): the text of a text value, "None" for None.
str(v) == IF IsStr(v) THEN v.chars ELSE <<"N", "o", "n", "e">>

NullTexts == {<<"n", "u", "l", "l">>, <<"n", "o", "n", "e">>, <<>>}

\* a + " " + b on two dict values: a TypeError unless both are text.
Concat(a, b) ==
    IF IsStr(a) /\ IsStr(b)
    THEN [raised |-> FALSE, value |-> Str(a.chars \o <<" ">> \o b.chars)]
    ELSE [raised |-> TRUE, value |-> JNull]

MaxOf(a, b) == IF a >= b THEN a ELSE b
MinOf(a, b) == IF a <= b THEN a ELSE b

critical_fields_by_country(country_code) ==
    CASE country_code = "PK" -> <<"cnic_number", "name_english", "name">>
      [] country_code = "IN" -> <<"aadhaar_number", "name">>
      [] country_code = "GB" -> <<"surname", "given_names", "passport_number",
                                  "license_number">>
      [] OTHER -> <<"name">>

\* The expected fields the extraction does not hold, in the order of the list.
missing_critical(ocr_data, country_code) ==
    LET IsMissing(f) ==
            \/ ~Truthy(Get(ocr_data, f, JNull))
            \/ lower(str(Get(ocr_data, f, Str(<<>>)))) \in NullTexts
    IN  SelectSeq(critical_fields_by_country(country_code), IsMissing)

Digit(c) ==
    CASE c = "0" -> 0 [] c = "1" -> 1 [] c = "2" -> 2 [] c = "3" -> 3
      [] c = "4" -> 4 [] c = "5" -> 5 [] c = "6" -> 6 [] c = "7" -> 7
      [] c = "8" -> 8 [] c = "9" -> 9 [] OTHER -> -1

\* The number a run of digits writes, -1 for anything else.
RECURSIVE Number(_)
Number(chars) ==
    IF chars = <<>> THEN -1
    ELSE IF Digit(chars[Len(chars)]) < 0 THEN -1
    ELSE IF Len(chars) = 1 THEN Digit(chars[1])
    ELSE IF Number(SubSeq(chars, 1, Len(chars) - 1)) < 0 THEN -1
    ELSE 10 * Number(SubSeq(chars, 1, Len(chars) - 1)) + Digit(chars[Len(chars)])

\* datetime.strptime(text, fmt).date() for the three formats of the code, on
\* texts that write day and month with two digits: Some(<<year, month, day>>),
\* or None for a ValueError.
strptime(chars, fmt) ==
    LET year_first == fmt = "%Y-%m-%d"
        sep == IF fmt = "%d/%m/%Y" THEN "/" ELSE "-"
        s1 == IF year_first THEN 5 ELSE 3
        s2 == IF year_first THEN 8 ELSE 6
        y == Number(IF year_first THEN SubSeq(chars, 1, 4) ELSE SubSeq(chars, 7, 10))
        m == Number(IF year_first THEN SubSeq(chars, 6, 7) ELSE SubSeq(chars, 4, 5))
        d == Number(IF year_first THEN SubSeq(chars, 9, 10) ELSE SubSeq(chars, 1, 2))
    IN  IF Len(chars) # 10 THEN None
        ELSE IF chars[s1] # sep \/ chars[s2] # sep THEN None
        ELSE IF y \in 1..9999 /\ m \in 1..12 /\ d \in 1..31 THEN Some(<<y, m, d>>)
        ELSE None

DateFormats == <<"%Y-%m-%d", "%d-%m-%Y", "%d/%m/%Y">>

DateBefore(d, e) ==
    \/ d[1] < e[1]
    \/ d[1] = e[1] /\ d[2] < e[2]
    \/ d[1] = e[1] /\ d[2] = e[2] /\ d[3] < e[3]

\* date.today() of the run
today == <<2026, 2, 1>>

\* The first format that parses decides; a text no format parses adds nothing.
is_expired(expiry) ==
    LET parsing == {i \in 1..Len(DateFormats) : strptime(expiry, DateFormats[i]) # None}
    IN  /\ parsing # {}
        /\ LET first == CHOOSE i \in parsing : \A j \in parsing : i <= j
           IN  DateBefore(strptime(expiry, DateFormats[first])[1], today)

\* _rule_based_risk, step by step; each step gives the points it adds and the
\* factors it appends.
mismatch_step_mut_25_each(mismatches) ==
    [points |-> IF mismatches = <<>> THEN 0 ELSE MinOf(Len(mismatches) * 25, 50),
     factors |-> [i \in 1..Len(mismatches) |->
                    [factor |-> "data_mismatch",
                     field |-> Get(mismatches[i], "field", "unknown"),
                     severity |-> "high",
                     detail |-> <<"Form: ", Get(mismatches[i], "form_value", "?"),
                                  " vs Document: ",
                                  Get(mismatches[i], "document_value", "?")>>]]]

mismatch_step(mismatches) ==
    [points |-> IF mismatches = <<>> THEN 0 ELSE MinOf(Len(mismatches) * 20, 50),
     factors |-> [i \in 1..Len(mismatches) |->
                    [factor |-> "data_mismatch",
                     field |-> Get(mismatches[i], "field", "unknown"),
                     severity |-> "high",
                     detail |-> <<"Form: ", Get(mismatches[i], "form_value", "?"),
                                  " vs Document: ",
                                  Get(mismatches[i], "document_value", "?")>>]]]

quality_step(quality_score) ==
    IF quality_score >= 98
    THEN [points |-> 10,
          factors |-> <<[factor |-> "quality_anomaly", severity |-> "medium",
                         detail |-> <<"Unusually high quality score", quality_score>>]>>]
    ELSE IF quality_score < 30
    THEN [points |-> 15,
          factors |-> <<[factor |-> "low_quality", severity |-> "medium",
                         detail |-> <<"Very low quality", quality_score>>]>>]
    ELSE [points |-> 0, factors |-> <<>>]

missing_step(ocr_data, country_code) ==
    LET missing == IF DOMAIN ocr_data = {} THEN <<>>
                   ELSE missing_critical(ocr_data, country_code)
    IN  IF missing = <<>> THEN [points |-> 0, factors |-> <<>>]
        ELSE [points |-> Len(missing) * 8,
              factors |-> <<[factor |-> "missing_fields", severity |-> "medium",
                             detail |-> <<"Could not extract: ", missing>>]>>]

expiry_step(ocr_data) ==
    LET expiry == Or(Get(ocr_data, "expiry_date", JNull),
                     Get(ocr_data, "expiration_date", JNull))
    IN  IF Truthy(expiry) /\ is_expired(str(expiry))
        THEN [points |-> 30,
              factors |-> <<[factor |-> "expired_document", severity |-> "high",
                             detail |-> <<"Document expired on ", expiry.chars>>]>>]
        ELSE [points |-> 0, factors |-> <<>>]

\* form_data.get("full_name") or form_data.get("first_name", "") + " " +
\* form_data.get("last_name", "")
form_name_of(form_data) ==
    LET full == Get(form_data, "full_name", JNull)
    IN  IF Truthy(full) THEN [raised |-> FALSE, value |-> full]
        ELSE Concat(Get(form_data, "first_name", Str(<<>>)),
                    Get(form_data, "last_name", Str(<<>>)))

\* ocr_data.get("name") or ocr_data.get("name_english") or
\* ocr_data.get("given_names", "") + " " + ocr_data.get("surname", ""), and ""
\* for an empty ocr_data
ocr_name_of(ocr_data) ==
    LET first == Or(Get(ocr_data, "name", JNull), Get(ocr_data, "name_english", JNull))
    IN  IF DOMAIN ocr_data = {} THEN [raised |-> FALSE, value |-> Str(<<>>)]
        ELSE IF Truthy(first) THEN [raised |-> FALSE, value |-> first]
        ELSE Concat(Get(ocr_data, "given_names", Str(<<>>)),
                    Get(ocr_data, "surname", Str(<<>>)))

name_step(form_name, ocr_name) ==
    LET form_chars == char_set(form_name)
        ocr_chars == char_set(ocr_name)
        common == Cardinality(form_chars \cap ocr_chars)
        longest == MaxOf(Cardinality(form_chars), Cardinality(ocr_chars))
        none == <<"n", "o", "n", "e">>
    IN  IF \/ form_name = <<>> \/ ocr_name = <<>>
           \/ form_name = none \/ ocr_name = none
           \/ form_chars = {} \/ ocr_chars = {}
        THEN [points |-> 0, factors |-> <<>>]
        ELSE IF 10 * common < 4 * longest
        THEN [points |-> 25,
              factors |-> <<[factor |-> "name_inconsistency", severity |-> "high",
                             detail |-> <<"Low name similarity", form_name, ocr_name>>]>>]
        ELSE IF 10 * common < 7 * longest
        THEN [points |-> 10,
              factors |-> <<[factor |-> "name_variation", severity |-> "medium",
                             detail |-> <<"Name partially matches">>]>>]
        ELSE [points |-> 0, factors |-> <<>>]

risk_level_of(risk_score) ==
    IF risk_score >= 60 THEN "HIGH"
    ELSE IF risk_score >= 30 THEN "MEDIUM"
    ELSE "LOW"

recommendation_of_mut_reject_at_60(risk_score) ==
    IF risk_score >= 60 THEN "reject"
    ELSE IF risk_score >= 30 THEN "manual-review"
    ELSE "auto-approve"

recommendation_of(risk_score) ==
    IF risk_score >= 60
    THEN (IF risk_score >= 80 THEN "reject" ELSE "manual-review")
    ELSE IF risk_score >= 30 THEN "manual-review"
    ELSE "auto-approve"

Returned(value) == [kind |-> "returned", value |-> value]
Raised(error) == [kind |-> "raised", error |-> error]

\* The value of an expression that is computed once and then used by name
The(values) == CHOOSE v \in values : TRUE

\* The clamp and the RiskAssessment at the end of _rule_based_risk
rule_assessment(risk_score, risk_factors) ==
    Returned([risk_level |-> risk_level_of(risk_score),
              risk_score |-> risk_score,
              risk_factors |-> risk_factors,
              recommendation |-> recommendation_of(risk_score),
              reasoning |-> <<"Rule-based assessment", Len(risk_factors)>>,
              ai_generated |-> FALSE])

rule_steps_result(steps) ==
    rule_assessment(
        MinOf(steps[1].points + steps[2].points + steps[3].points
                + steps[4].points + steps[5].points, 100),
        steps[1].factors \o steps[2].factors \o steps[3].factors
            \o steps[4].factors \o steps[5].factors)

rule_steps(a, form_name, ocr_name) ==
    <<mismatch_step(a.mismatches),
      quality_step(a.quality_score),
      missing_step(a.ocr_data, a.country_code),
      expiry_step(a.ocr_data),
      name_step(lower(strip(str(form_name))), lower(strip(str(ocr_name))))>>

\* _rule_based_risk: the RiskAssessment it returns, or the TypeError of a name
\* concatenation on a null field.
_rule_based_risk(a) ==
    The({IF form_name.raised \/ ocr_name.raised THEN Raised("TypeError")
         ELSE The({rule_steps_result(steps) :
                     steps \in {rule_steps(a, form_name.value, ocr_name.value)}}) :
            form_name \in {form_name_of(a.form_data)},
            ocr_name \in {ocr_name_of(a.ocr_data)}})

\* What the AI call of one assessment did: no API key, an exception of the
\* client or the transport, a text without "{", a text json.loads refuses, or a
\* parsed object (data). A key the object lacks is absent from data.
AiOutcome(kind, data) == [kind |-> kind, data |-> data]

JNum(n) == [type |-> "num", n |-> n]
JList(items) == [type |-> "list", items |-> items]
JObject(fields) == [type |-> "object", fields |-> fields]

\* int(v): the integer, or None for a ValueError / TypeError.
int(v) ==
    IF v.type = "num" THEN Some(v.n)
    ELSE IF v.type = "str" /\ Number(v.chars) >= 0 THEN Some(Number(v.chars))
    ELSE None

level_map(name) == IF name \in {"LOW", "MEDIUM", "HIGH"} THEN name ELSE "LOW"

rec_map(name) ==
    IF name \in {"auto-approve", "manual-review", "reject"} THEN name
    ELSE "manual-review"

\* _ai_risk_assessment: the RiskAssessment built from the response, or None.
\* Every exception inside the function is caught and gives None.
_ai_risk_assessment(ai) ==
    IF ai.kind # "parsed" THEN None
    ELSE LET score == int(Get(ai.data, "risk_score", JNum(0)))
         IN  IF score = None THEN None
             ELSE Some([risk_level |-> level_map(Get(ai.data, "risk_level", "LOW")),
                        risk_score |-> MinOf(score[1], 100),
                        risk_factors |-> Get(ai.data, "risk_factors", JList(<<>>)),
                        recommendation |->
                            rec_map(Get(ai.data, "recommendation", "manual-review")),
                        reasoning |-> Get(ai.data, "reasoning", "AI assessment complete"),
                        ai_generated |-> TRUE])

FactorKinds(factors) == {factors[i].factor : i \in 1..Len(factors)}

\* The comprehension over ai_result.risk_factors in assess_risk: the AI factors
\* whose kind the rule-based list lacks, or the error of iterating a value that
\* is no list or of calling .get on an entry that is no object.
ai_extra_factors(rule_factors, ai_factors) ==
    LET items == IF ai_factors.type = "list" THEN ai_factors.items ELSE <<>>
        IsNew(f) == \/ "factor" \notin DOMAIN f.fields
                    \/ f.fields.factor \notin FactorKinds(rule_factors)
        Fields(f) == f.fields
    IN  IF ai_factors.type = "str"
        THEN (IF ai_factors.chars = <<>> THEN Returned(<<>>)
              ELSE Raised("AttributeError"))
        ELSE IF ai_factors.type # "list" THEN Raised("TypeError")
        ELSE IF \E i \in 1..Len(items) : items[i].type # "object"
        THEN Raised("AttributeError")
        ELSE Returned([i \in 1..Len(SelectSeq(items, IsNew)) |->
                          Fields(SelectSeq(items, IsNew)[i])])

merged_score_mut_average(rule_score, ai_score) == (rule_score + ai_score) \div 2

merged_score(rule_score, ai_score) == MinOf(MaxOf(rule_score, ai_score), 100)

\* The merge at the end of assess_risk, for a rule-based and an AI assessment
merged_assessment(rule, ai_assessment) ==
    The({IF extra.kind = "raised" THEN extra
         ELSE The({Returned([risk_level |-> risk_level_of(final_score),
                             risk_score |-> final_score,
                             risk_factors |-> rule.risk_factors \o extra.value,
                             recommendation |-> recommendation_of(final_score),
                             reasoning |-> ai_assessment.reasoning,
                             ai_generated |-> TRUE]) :
                      final_score \in {merged_score(rule.risk_score,
                                                    ai_assessment.risk_score)}}) :
            extra \in {ai_extra_factors(rule.risk_factors, ai_assessment.risk_factors)}})

\* assess_risk: the RiskAssessment it returns or the exception that leaves it.
assess_risk(a, use_ai, ai) ==
    The({IF rule_result.kind = "raised" THEN rule_result
         ELSE IF ~use_ai \/ ai_result = None THEN rule_result
         ELSE merged_assessment(rule_result.value, ai_result[1]) :
            rule_result \in {_rule_based_risk(a)},
              ai_result \in {_ai_risk_assessment(ai)}})

\* Inputs of the risk engine
NameMismatch ==
    [field |-> "full_name", form_value |-> "ali", document_value |-> "bob",
     message |-> "Name mismatch"]

RECURSIVE MismatchList(_)
MismatchList(n) ==
    IF n = 0 THEN <<>>
    ELSE Append(MismatchList(n - 1), IF n % 2 = 1 THEN DobMismatch ELSE NameMismatch)

MismatchLists == {MismatchList(n) : n \in 0..MaxMismatches}

QualityScores == {29, 30, 97, 98}

Countries == {"PK", "GB", "XX"}

Ali == Str(<<"A", "l", "i">>)
Bob == Str(<<"b", "o", "b">>)
Alan == Str(<<"a", "l", "a", "n">>)

OcrCases ==
    {<<>>,
     [name |-> Ali, name_english |-> Ali, cnic_number |-> Str(<<"4", "2">>)],
     [name |-> Str(<<"N", "U", "L", "L">>), name_english |-> Alan,
      expiry_date |-> Str(<<"2", "0", "2", "0", "-", "0", "1", "-", "3", "1">>)],
     [name |-> JNull, given_names |-> Bob, surname |-> Str(<<>>),
      expiration_date |-> Str(<<"3", "1", "/", "1", "2", "/", "2", "0", "3", "0">>)],
     [cnic_number |-> Str(<<"4", "2">>), given_names |-> JNull,
      expiry_date |-> Str(<<"0", "1", "-", "0", "2", "-", "2", "0", "2", "0">>)],
     [name |-> Str(<<"N", "o", "n", "e">>), surname |-> Ali,
      expiry_date |-> Str(<<"s", "o", "o", "n">>)]}

FormCases ==
    {[full_name |-> Ali],
     [first_name |-> Alan, last_name |-> Str(<<>>)],
     <<>>}

RiskArgs ==
    [mismatches : MismatchLists, quality_score : QualityScores,
     country_code : Countries, ocr_data : OcrCases, form_data : FormCases]

AiScores ==
    {JNum(-5), JNum(10), JNum(45), JNum(85), JNum(150),
     Str(<<"7", "0">>), Str(<<"h", "i", "g", "h">>), JNull}

AiFactor(kind) == JObject([factor |-> kind, severity |-> "low", detail |-> "ai"])

AiFactorLists ==
    {JList(<<>>),
     JList(<<AiFactor("data_mismatch"), AiFactor("tampering")>>),
     JList(<<AiFactor("tampering"), AiFactor("tampering")>>),
     JList(<<Str(<<"t", "a", "m", "p", "e", "r">>)>>),
     JNull}

AiVerdicts == {<<"LOW", "auto-approve">>, <<"HIGH", "reject">>}

AiData ==
    {[risk_score |-> s, risk_factors |-> f, risk_level |-> v[1],
      recommendation |-> v[2], reasoning |-> "ai"] :
        s \in AiScores, f \in AiFactorLists, v \in AiVerdicts}
      \cup {[risk_level |-> v[1], recommendation |-> v[2]] : v \in AiVerdicts}

AiFailures == {"no_key", "transport_error", "no_json", "bad_json"}

AiOutcomes ==
    {AiOutcome(k, <<>>) : k \in AiFailures} \cup {AiOutcome("parsed", d) : d \in AiData}

AssessRisk ==
    /\ ret.op = "risk_input"
    /\ \E use_ai \in BOOLEAN, ai \in AiOutcomes :
         /\ (ai.kind = "no_key") = ~api_key_set
         /\ ret' = [op |-> "assess_risk", args |-> ret.args, use_ai |-> use_ai, ai |-> ai,
                  rule_result |-> _rule_based_risk(ret.args),
                  result |-> assess_risk(ret.args, use_ai, ai)]
    /\ UNCHANGED <<trackerVars, uploadVars, now, threads, submitVars>>

----------------------------------------------------------------------------
(* Issue prioritisation: kyc-agent/backend/issue_detector.py *)

\* DetectedIssue: issue_type and severity (description, affected_area and
\* suggestion are carried along and never read by prioritize_issues).
DetectedIssue(issue_type, severity) == [issue_type |-> issue_type, severity |-> severity]

IssueTypes == {"blurry", "glare", "expired", "rotated"}
IssueSeverities == {"blocking", "warning", "info"}

Issues == {DetectedIssue(t, sv) : t \in IssueTypes, sv \in IssueSeverities}

IssueLists == UNION {[1..n -> Issues] : n \in 0..MaxIssues}

\* The loop over the input with seen_types
RECURSIVE unique_issues(_, _)
unique_issues(issues, seen_types) ==
    IF issues = <<>> THEN <<>>
    ELSE LET issue == Head(issues)
         IN  IF issue.issue_type \notin seen_types
             THEN <<issue>> \o unique_issues(Tail(issues), seen_types \cup {issue.issue_type})
             ELSE unique_issues(Tail(issues), seen_types)

\* severity_order.get(x.severity, 3)
severity_order(severity) ==
    CASE severity = "blocking" -> 0
      [] severity = "warning" -> 1
      [] severity = "info" -> 2
      [] OTHER -> 3

\* sorted(..., key=...): stable, so equal keys keep their order
sorted_by_severity(issues) ==
    LET Rank(r) == SelectSeq(issues, LAMBDA x : severity_order(x.severity) = r)
    IN  Rank(0) \o Rank(1) \o Rank(2) \o Rank(3)

\* s[:3]
first_three(s) == SubSeq(s, 1, MinOf(Len(s), 3))

prioritize_issues_mut_unsorted(issues) ==
    IF issues = <<>> THEN <<>>
    ELSE first_three(unique_issues(issues, {}))

prioritize_issues(issues) ==
    IF issues = <<>> THEN <<>>
    ELSE first_three(sorted_by_severity(unique_issues(issues, {})))

PrioritizeIssues ==
    /\ ret.op = "issues_input"
    /\ ret' = [op |-> "prioritize_issues", issues |-> ret.issues,
               result |-> prioritize_issues(ret.issues)]
    /\ UNCHANGED <<trackerVars, uploadVars, now, threads, submitVars>>

\* penalties.get(issue.severity, 0)
penalties(severity) ==
    CASE severity = "blocking" -> 30
      [] severity = "warning" -> 10
      [] severity = "info" -> 2
      [] OTHER -> 0

\* sum(penalties.get(issue.severity, 0) for issue in issues)
RECURSIVE total_penalty(_)
total_penalty(issues) ==
    IF issues = <<>> THEN 0
    ELSE penalties(Head(issues).severity) + total_penalty(Tail(issues))

calculate_issue_score_mut_no_floor(issues) ==
    IF issues = <<>> THEN 100
    ELSE 100 - total_penalty(issues)

\* The score is a float with an integral value; the model keeps the integer.
calculate_issue_score(issues) ==
    IF issues = <<>> THEN 100
    ELSE MaxOf(0, 100 - total_penalty(issues))

is_deriv_ready_mut_all(issues) ==
    ~(\A i \in 1..Len(issues) : issues[i].severity = "blocking")

is_deriv_ready(issues) ==
    ~(\E i \in 1..Len(issues) : issues[i].severity = "blocking")

CalculateIssueScore ==
    /\ ret.op = "issues_input"
    /\ ret' = [op |-> "calculate_issue_score", issues |-> ret.issues,
               result |-> calculate_issue_score(ret.issues)]
    /\ UNCHANGED <<trackerVars, uploadVars, now, threads, submitVars>>

\* prioritized = prioritize_issues(issues); is_ready = is_deriv_ready(prioritized)
ReadyAfterPrioritize ==
    /\ ret.op = "issues_input"
    /\ ret' = [op |-> "is_deriv_ready", issues |-> ret.issues,
               prioritized |-> prioritize_issues(ret.issues),
               result |-> is_deriv_ready(prioritize_issues(ret.issues))]
    /\ UNCHANGED <<trackerVars, uploadVars, now, threads, submitVars>>

\* ISSUE_DEFINITIONS[issue_type]["severity"], the severity create_issue gives
issue_severity(issue_type) ==
    CASE issue_type \in {"missing_back", "blurry", "wrong_document", "expired",
                         "corners_cut", "photo_missing", "text_unreadable",
                         "wrong_format"} -> "blocking"
      [] issue_type \in {"missing_date", "glare", "too_dark", "too_bright", "rotated",
                         "low_resolution", "obstructed"} -> "warning"
      [] OTHER -> "info"

create_issue(issue_type) == DetectedIssue(issue_type, issue_severity(issue_type))

\* A caller that appends one more issue to a scored list and scores it again
AppendAndScore ==
    /\ ret.op = "calculate_issue_score"
    /\ Len(ret.issues) < MaxIssues
    /\ \E issue \in Issues :
         ret' = [op |-> "calculate_issue_score", issues |-> Append(ret.issues, issue),
                 result |-> calculate_issue_score(Append(ret.issues, issue))]
    /\ UNCHANGED <<trackerVars, uploadVars, now, threads, submitVars>>

----------------------------------------------------------------------------
(* The /analyze endpoint: backend/api.py with IssueDetector *)

\* issues.append(create_issue(t)) under a condition
IssueIf(cond, issue_type) == IF cond THEN <<create_issue(issue_type)>> ELSE <<>>

\* image_quality.get(flag, default) for the four flags of assess_basic_quality
_detect_quality_issues(image_quality) ==
    IssueIf(image_quality.is_blurry, "blurry")
        \o IssueIf(image_quality.is_too_dark, "too_dark")
        \o IssueIf(image_quality.is_too_bright, "too_bright")
        \o IssueIf(~image_quality.resolution_ok, "low_resolution")

\* quality is vision_result["quality_assessment"] with the defaults of .get
\* already filled in.
_detect_vision_issues(quality) ==
    IssueIf(quality.is_blurry, "blurry")
        \o IssueIf(quality.has_glare, "glare")
        \o IssueIf(quality.is_too_dark, "too_dark")
        \o IssueIf(quality.is_too_bright, "too_bright")
        \o IssueIf(~quality.is_blurry /\ ~quality.all_corners_visible, "corners_cut")
        \o IssueIf(quality.is_rotated, "rotated")
        \o IssueIf(quality.has_obstructions, "obstructed")
        \o IssueIf(~quality.is_blurry /\ ~quality.is_readable, "text_unreadable")

\* The filter that follows the two detections in detect_issues
suppress_stacking(issues) ==
    IF \E i \in 1..Len(issues) : issues[i].issue_type = "blurry"
    THEN SelectSeq(issues, LAMBDA x : x.issue_type \notin {"corners_cut", "text_unreadable"})
    ELSE issues

\* _detect_missing_elements: detected_elements of the stand-in result of
\* vision_analyze_async is a list, and .get on it is an AttributeError.
_detect_missing_elements(req) ==
    IF ~req.requirements THEN Returned(<<>>)
    ELSE IF req.vision = "stand_in" THEN Raised("AttributeError")
    ELSE Returned(IssueIf(req.side # "back" /\ req.document_type # "utility_bill"
                            /\ ~req.has_photo, "photo_missing"))

\* _detect_utility_bill_age by what the bill date turned out to be
_detect_utility_bill_age(bill_date) ==
    IssueIf(bill_date = "absent", "missing_date") \o IssueIf(bill_date = "old", "expired")

\* detect_issues with sides_uploaded = [side]: the completeness check is skipped.
detect_issues(req) ==
    The({IF missing.kind = "raised" THEN missing
         ELSE Returned(
                suppress_stacking(_detect_quality_issues(req.image_quality)
                                    \o _detect_vision_issues(req.quality))
                  \o IssueIf(req.wrong_document, "wrong_document")
                  \o missing.value
                  \o (IF req.document_type = "utility_bill"
                      THEN _detect_utility_bill_age(req.bill_date) ELSE <<>>)) :
            missing \in {_detect_missing_elements(req)}})

AnalysisResponse(success, score, is_ready, issues) ==
    [success |-> success, score |-> score, is_ready |-> is_ready, issues |-> issues]

\* The part of the response the issues decide, for the issues after the check
\* for extracted values
analysis_of(prioritized) ==
    AnalysisResponse(TRUE, calculate_issue_score(prioritized),
                     is_deriv_ready(prioritized), prioritized)

\* analyze_document of api.py after the image was processed
analyze_document(req) ==
    The({IF detected.kind = "raised"
         THEN AnalysisResponse(FALSE, 0, FALSE,
                               <<DetectedIssue("PROCESSING_ERROR", "blocking")>>)
         ELSE analysis_of(prioritize_issues(
                detected.value \o (IF req.real_values THEN <<>>
                                   ELSE <<DetectedIssue("text_unreadable", "blocking")>>))) :
            detected \in {detect_issues(req)}})

ImageQualities ==
    [is_blurry : BOOLEAN, is_too_dark : BOOLEAN, is_too_bright : {FALSE},
     resolution_ok : BOOLEAN]

VisionQualities ==
    [is_blurry : BOOLEAN, has_glare : BOOLEAN, is_too_dark : {FALSE},
     is_too_bright : {FALSE}, all_corners_visible : BOOLEAN, is_rotated : BOOLEAN,
     has_obstructions : {FALSE}, is_readable : BOOLEAN]

\* The quality_assessment of the stand-in result: no flag set, is_readable and
\* all_corners_visible absent and so defaulted to True.
StandInQuality ==
    [is_blurry |-> FALSE, has_glare |-> FALSE, is_too_dark |-> FALSE,
     is_too_bright |-> FALSE, all_corners_visible |-> TRUE, is_rotated |-> FALSE,
     has_obstructions |-> FALSE, is_readable |-> TRUE]

AnalyzeRequests ==
    {r \in [image_quality : ImageQualities, vision : {"analyzed", "stand_in"},
            quality : VisionQualities, wrong_document : BOOLEAN, has_photo : BOOLEAN,
            side : Sides, document_type : {"national_id", "utility_bill"},
            bill_date : {"absent", "recent", "old"}, requirements : BOOLEAN,
            real_values : BOOLEAN] :
        /\ r.vision = "stand_in" =>
             /\ r.quality = StandInQuality
             /\ ~r.wrong_document /\ ~r.has_photo /\ ~r.real_values
             /\ r.bill_date = "absent"
        /\ r.document_type # "utility_bill" => r.bill_date = "absent"}

AnalyzeDocument ==
    /\ ret.op = "analyze_input"
    /\ ret' = [op |-> "analyze_document", request |-> ret.request,
               response |-> analyze_document(ret.request)]
    /\ UNCHANGED <<trackerVars, uploadVars, now, threads, submitVars>>

----------------------------------------------------------------------------
(* Specifications *)

Init ==
    /\ total_calls = 0
    /\ last_call = NoTime
    /\ field_retries = <<>>
    /\ now = 0
    /\ threads = <<>>
    /\ ret = Ret("init", TRUE, "", 0)
    /\ documents = {}
    /\ analyses = <<>>
    /\ attempts = 0
    /\ api_key_set = FALSE
    /\ ocr = NewGeminiOCR
    /\ configured = FALSE
    /\ submission_history = <<>>
    /\ caller_refs = {}
    /\ copies = FALSE

NextTracker ==
    \/ RecordCall
    \/ RecordFieldAttempt
    \/ CanRetryField
    \/ ResetField
    \/ ResetAll
    \/ Tick

SpecTracker == Init /\ [][NextTracker]_vars

NextRestore ==
    \/ NextTracker
    \/ ToDict
    \/ FromDict

SpecRestore == Init /\ [][NextRestore]_vars

InitUpload ==
    /\ total_calls = 0
    /\ last_call = NoTime
    /\ field_retries = <<>>
    /\ now = 0
    /\ threads = <<>>
    /\ ret = Ret("init", TRUE, "", 0)
    /\ documents = {}
    /\ analyses = <<>>
    /\ attempts = 0
    /\ api_key_set \in BOOLEAN
    /\ ocr = NewGeminiOCR
    /\ configured = FALSE
    /\ submission_history = <<>>
    /\ caller_refs = {}
    /\ copies = FALSE

NextUpload ==
    \/ AnalyzeClick
    \/ Reupload
    \/ ApiAnalyze
    \/ ResetField

SpecUpload == InitUpload /\ [][NextUpload]_vars

InitSubmit ==
    /\ total_calls = 0
    /\ last_call = NoTime
    /\ field_retries = <<>>
    /\ now = 0
    /\ threads = <<>>
    /\ ret = Ret("init", TRUE, "", 0)
    /\ documents = {}
    /\ analyses = <<>>
    /\ attempts = 0
    /\ api_key_set = FALSE
    /\ ocr = NewGeminiOCR
    /\ configured \in BOOLEAN
    /\ submission_history = <<>>
    /\ caller_refs = {}
    /\ copies = FALSE

NextSubmit ==
    \/ PrepareAndSubmit
    \/ Tick

SpecSubmit == InitSubmit /\ [][NextSubmit]_vars

NextHistory ==
    \/ SubmitLean
    \/ ReviewSubmission
    \/ SeedDemoData
    \/ GetPendingReviews
    \/ GetSubmissionStatus

SpecHistory == InitSubmit /\ [][NextHistory]_vars

InitAlias ==
    /\ total_calls = 0
    /\ last_call = NoTime
    /\ field_retries = <<>>
    /\ now = 0
    /\ threads = <<>>
    /\ ret = Ret("init", TRUE, "", 0)
    /\ documents = {}
    /\ analyses = <<>>
    /\ attempts = 0
    /\ api_key_set = FALSE
    /\ ocr = NewGeminiOCR
    /\ configured = FALSE
    /\ submission_history = <<>>
    /\ caller_refs = {}
    /\ copies \in BOOLEAN

NextAlias ==
    \/ SubmitKeepingRefs
    \/ CallerEditsEntry
    \/ CallerAppends
    \/ ReturnedListEdit

SpecAlias == InitAlias /\ [][NextAlias]_vars

\* The tracker after no call and after 99 recorded calls, with threads about
\* to call its methods.
StartCalls == {0, DAILY_LIMIT - 1}

InitThreads ==
    /\ total_calls \in StartCalls
    /\ last_call = NoTime
    /\ field_retries = <<>>
    /\ now = 0
    /\ threads = NewThreads(total_calls)
    /\ ret = Ret("init", TRUE, "", 0)
    /\ documents = {}
    /\ analyses = <<>>
    /\ attempts = 0
    /\ api_key_set = FALSE
    /\ ocr = NewGeminiOCR
    /\ configured = FALSE
    /\ submission_history = <<>>
    /\ caller_refs = {}
    /\ copies = FALSE

NextThreads ==
    \E t \in Threads :
        \/ ThreadCall(t)
        \/ RcCheck(t)
        \/ RcLoad(t)
        \/ RcStore(t)
        \/ FaGet(t)
        \/ FaPut(t)
        \/ FaCheck(t)
        \/ FaLoad(t)
        \/ FaStore(t)

SpecThreads == InitThreads /\ [][NextThreads]_vars

InitReview ==
    /\ total_calls = 0
    /\ last_call = NoTime
    /\ field_retries = <<>>
    /\ now = 0
    /\ threads = NewReviewers
    /\ ret = Ret("init", TRUE, "", 0)
    /\ documents = {}
    /\ analyses = <<>>
    /\ attempts = 0
    /\ api_key_set = FALSE
    /\ ocr = NewGeminiOCR
    /\ configured = FALSE
    /\ submission_history = DemoData(now)
    /\ caller_refs = {}
    /\ copies = FALSE

NextReview ==
    \E t \in Threads :
        \/ RvCall(t)
        \/ RvSetAction(t)
        \/ RvSetNotes(t)
        \/ RvSetStatus(t)

SpecReview == InitReview /\ [][NextReview]_vars

InitOcr ==
    /\ total_calls = 0
    /\ last_call = NoTime
    /\ field_retries = <<>>
    /\ now = 0
    /\ threads = <<>>
    /\ ret = Ret("init", TRUE, "", 0)
    /\ documents = {}
    /\ analyses = <<>>
    /\ attempts = 0
    /\ api_key_set \in BOOLEAN
    /\ ocr = NewGeminiOCR
    /\ configured = FALSE
    /\ submission_history = <<>>
    /\ caller_refs = {}
    /\ copies = FALSE

NextOcr ==
    \/ AnalyzeDocumentStart
    \/ EndpointAttempt

SpecOcr == InitOcr /\ [][NextOcr]_vars

InitRisk ==
    /\ total_calls = 0
    /\ last_call = NoTime
    /\ field_retries = <<>>
    /\ now = 0
    /\ threads = <<>>
    /\ ret \in {[op |-> "risk_input", args |-> a] : a \in RiskArgs}
    /\ documents = {}
    /\ analyses = <<>>
    /\ attempts = 0
    /\ api_key_set \in BOOLEAN
    /\ ocr = NewGeminiOCR
    /\ configured = FALSE
    /\ submission_history = <<>>
    /\ caller_refs = {}
    /\ copies = FALSE

NextRisk == AssessRisk

SpecRisk == InitRisk /\ [][NextRisk]_vars

InitIssues ==
    /\ total_calls = 0
    /\ last_call = NoTime
    /\ field_retries = <<>>
    /\ now = 0
    /\ threads = <<>>
    /\ ret \in {[op |-> "issues_input", issues |-> l] : l \in IssueLists}
    /\ documents = {}
    /\ analyses = <<>>
    /\ attempts = 0
    /\ api_key_set = FALSE
    /\ ocr = NewGeminiOCR
    /\ configured = FALSE
    /\ submission_history = <<>>
    /\ caller_refs = {}
    /\ copies = FALSE

NextIssues ==
    \/ PrioritizeIssues
    \/ CalculateIssueScore
    \/ AppendAndScore
    \/ ReadyAfterPrioritize

SpecIssues == InitIssues /\ [][NextIssues]_vars

InitAnalyze ==
    /\ total_calls = 0
    /\ last_call = NoTime
    /\ field_retries = <<>>
    /\ now = 0
    /\ threads = <<>>
    /\ ret \in {[op |-> "analyze_input", request |-> r] : r \in AnalyzeRequests}
    /\ documents = {}
    /\ analyses = <<>>
    /\ attempts = 0
    /\ api_key_set = FALSE
    /\ ocr = NewGeminiOCR
    /\ configured = FALSE
    /\ submission_history = <<>>
    /\ caller_refs = {}
    /\ copies = FALSE

NextAnalyze == AnalyzeDocument

SpecAnalyze == InitAnalyze /\ [][NextAnalyze]_vars

----------------------------------------------------------------------------
(* Claims about the usage governor *)

AttemptsOf(fr, d, s) ==
    IF get_field_key(d, s) \in DOMAIN fr THEN fr[get_field_key(d, s)].attempts ELSE 0

\* C1: from a fresh tracker the first 100 record_call invocations succeed and
\* every later one returns (False, limit message) without changing total_calls;
\* total_calls never exceeds 100 and can_make_call is false exactly when
\* total_calls >= 100.
C1_CallCap ==
    [][/\ total_calls <= 100
       /\ (can_make_call <=> total_calls < 100)
       /\ (RecordCall =>
              IF total_calls < 100
              THEN ret'.ok /\ total_calls' = total_calls + 1
              ELSE /\ ~ret'.ok
                   /\ ret'.msg = "API limit reached"
                   /\ total_calls' = total_calls)]_vars

C1_Witness ==
    /\ total_calls = 100
    /\ ret.op = "record_call"
    /\ ~ret.ok

\* C2: for every (document_type, side) the first two record_field_attempt calls
\* succeed and every further one is refused with a "Maximum retries" message; the
\* recorded attempts never exceed 2, can_retry_field reports (False, 0) once two
\* are recorded, and only an explicit reset lowers the count again.
C2_FieldRetryCap ==
    [][\A d \in DocTypes, s \in Sides :
         LET a == AttemptsOf(field_retries, d, s)
             a2 == AttemptsOf(field_retries', d, s)
         IN  /\ a <= 2
             /\ (a >= 2 => can_retry_field(d, s) = <<FALSE, 0>>)
             /\ (RecordFieldAttemptOn(d, s) =>
                    IF a < 2
                    THEN ret'.ok /\ a2 = a + 1
                    ELSE ~ret'.ok /\ ret'.msg = "Maximum retries" /\ a2 = a)
             /\ (a2 < a => ResetFieldOn(d, s) \/ ResetAll)]_vars

C2_Witness ==
    /\ ret.op = "record_field_attempt"
    /\ ~ret.ok
    /\ ret.key \in DOMAIN field_retries
    /\ field_retries[ret.key].attempts = 2

\* C18: over any sequence of tracker operations total_calls and each
\* per-(kind, side) attempt count never decrease except in a step that is an
\* explicit reset (reset_all for both, reset_field for that field); from_dict
\* does not lower them either.
C18_MonotoneCounters ==
    [][/\ (total_calls' < total_calls => ResetAll)
       /\ \A d \in DocTypes, s \in Sides :
             AttemptsOf(field_retries', d, s) < AttemptsOf(field_retries, d, s) =>
                 (ResetFieldOn(d, s) \/ ResetAll)]_vars

BandRank(level) ==
    CASE level = "GREEN" -> 0
      [] level = "YELLOW" -> 1
      [] level = "RED" -> 2
      [] level = "BLOCKED" -> 3

\* The band of the stored count is the one the thresholds 50, 80 and 100 name.
BandFunction ==
    LET level == usage_level(total_calls)
    IN  /\ (level = "GREEN") <=> total_calls < 50
        /\ (level = "YELLOW") <=> (50 <= total_calls /\ total_calls <= 79)
        /\ (level = "RED") <=> (80 <= total_calls /\ total_calls <= 99)
        /\ (level = "BLOCKED") <=> total_calls >= 100

\* C19: in every reachable tracker state usage_level is GREEN iff
\* total_calls < 50, YELLOW iff 50..79, RED iff 80..99 and BLOCKED iff >= 100,
\* and so the band only moves GREEN -> YELLOW -> RED -> BLOCKED between resets:
\* a step that lowers the band is a reset_all.
C19_BandOnlyRises ==
    [][/\ BandFunction
       /\ BandFunction'
       /\ BandRank(usage_level(total_calls')) < BandRank(usage_level(total_calls))
            => ResetAll]_vars

\* C17: for any interleaving of record_call invocations of concurrent threads,
\* total_calls equals the number of invocations that returned success and never
\* exceeds 100, and concurrent record_field_attempt calls for one (kind, side)
\* never let more than 2 attempts succeed.
C17_AtomicCounters ==
    threads # <<>> =>
        /\ total_calls <= DAILY_LIMIT
        /\ threads.ok_attempts <= max_attempts
        /\ (\A t \in Threads : threads.proc[t].pc \notin {"rc_load", "rc_store"}) =>
              total_calls = threads.base_calls + threads.ok_calls

----------------------------------------------------------------------------
(* Claims about the entry points that start an analysis *)

\* C3: with 100 calls already recorded, an analyze request (the upload flow's
\* Analyze button or the /analyze endpoint) is rejected before any endpoint call
\* is attempted, and the recorded call count stays at 100.
C3_GateBeforeCall ==
    [][(total_calls >= 100 /\ (AnalyzeClick \/ ApiAnalyze)) =>
          (attempts' = 0 /\ ~ret'.ok /\ total_calls' = 100)]_vars

\* C15: for one analyze request of the upload flow, the number of units added
\* to the governor's call counter equals the number of endpoint attempts the
\* orchestrator made for it, retries and model fallbacks included.
C15_EveryAttemptCharged ==
    [][AnalyzeClick => total_calls' - total_calls = attempts']_vars

----------------------------------------------------------------------------
(* Claims about prepare_and_submit *)

LastRecord == submission_history[Len(submission_history)]

Submitted == ret.op = "prepare_and_submit"

\* C4: every record created by prepare_and_submit with a non-empty mismatch list
\* has status NEEDS_REVIEW at creation, whatever status the registration endpoint
\* (live or simulated) reported.
C4_MismatchForcesReview ==
    Submitted /\ ret.args.mismatches # <<>> =>
        /\ LastRecord.status = "NEEDS_REVIEW"
        /\ LastRecord.mismatches = ret.args.mismatches
        /\ ret.result.status = "NEEDS_REVIEW"

C4_Witness ==
    /\ Submitted
    /\ ret.args.mismatches # <<>>
    /\ ret.result.used_real_api
    /\ ret.result.deriv_response.status = "rejected"
    /\ LastRecord.status = "NEEDS_REVIEW"

\* C7: when the registration endpoint is not configured, fails, or answers with
\* an error, prepare_and_submit with an empty mismatch list yields the status
\* given by issue_score alone (>= 80 ACCEPTED, 50..79 NEEDS_REVIEW, < 50
\* REJECTED), and can_proceed is true exactly for ACCEPTED and NEEDS_REVIEW.
C7_SimulatedOutcome ==
    (/\ Submitted
     /\ ~configured \/ ret.outcome.kind \in {"none", "error"}
     /\ ret.args.mismatches = <<>>) =>
        LET score == ret.args.issue_score
            expected == IF score >= 80 THEN "ACCEPTED"
                        ELSE IF score >= 50 THEN "NEEDS_REVIEW"
                        ELSE "REJECTED"
        IN  /\ ret.result.status = expected
            /\ LastRecord.status = expected
            /\ ret.result.can_proceed = (expected # "REJECTED")

C7_Witness ==
    /\ Submitted
    /\ configured
    /\ ret.outcome.kind = "error"
    /\ ret.args.mismatches = <<>>
    /\ ret.args.issue_score = 95
    /\ ret.result.status = "ACCEPTED"
    /\ ret.result.can_proceed

\* The other run of a live/simulated pair: the same arguments and clock reading,
\* the other kind of responder, and the same reported status.
Counterpart(r1, c2, o2) ==
    LET r2 == prepare_and_submit(ret.args, ret.at, c2, o2)
    IN  /\ r2.result.used_real_api # r1.result.used_real_api
        /\ r2.result.deriv_response.status = r1.result.deriv_response.status

Verdict(r) ==
    <<r.result.success, r.result.status, r.result.message, r.result.can_proceed,
      [r.record EXCEPT !.document_id = Token("")]>>

\* C8 (as claimed): for two runs of prepare_and_submit on identical inputs, one
\* answered by the live endpoint with status s and one by the simulator with the
\* same status s, the returned result and the stored record are identical.
C8_Indistinguishable ==
    Submitted =>
        LET r1 == prepare_and_submit(ret.args, ret.at, configured, ret.outcome)
        IN  \A c2 \in BOOLEAN, o2 \in Outcomes :
                Counterpart(r1, c2, o2) =>
                    prepare_and_submit(ret.args, ret.at, c2, o2) = r1

\* C8 (amended): such a pair of runs agrees on success, status, message and
\* can_proceed and on every field of the stored record except document_id; the
\* result's used_real_api and deriv_response tell the two apart.
C8_SameVerdict ==
    Submitted =>
        LET r1 == prepare_and_submit(ret.args, ret.at, configured, ret.outcome)
        IN  /\ r1.result = ret.result
            /\ r1.record = LastRecord
            /\ \A c2 \in BOOLEAN, o2 \in Outcomes :
                  Counterpart(r1, c2, o2) =>
                      Verdict(prepare_and_submit(ret.args, ret.at, c2, o2)) = Verdict(r1)

C8_Witness ==
    /\ Submitted
    /\ ret.result.used_real_api
    /\ ret.args.mismatches # <<>>
    /\ ret.result.deriv_response.status = "accepted"
    /\ ret.args.issue_score = 95
    /\ Counterpart(prepare_and_submit(ret.args, ret.at, configured, ret.outcome),
                   FALSE, NotCalled)

----------------------------------------------------------------------------
(* Claims about the submission history and the reviewer actions *)

\* The part of a record no operation may change after creation.
Frozen(r) ==
    [r EXCEPT !.status = "", !.reviewer_action = None, !.reviewer_notes = ""]

\* C5: after creation a record's status changes only through a reviewer action;
\* a reviewer override is applied at most once per record (a second
\* review_submission on a reviewed record changes neither status nor
\* reviewer_action nor reviewer_notes), and only approve and reject are accepted.
C5_LegalTransitions ==
    [][\A i \in 1..Len(submission_history) :
         /\ i <= Len(submission_history')
         /\ (submission_history'[i].status # submission_history[i].status =>
                ReviewSubmission)
         /\ (submission_history[i].reviewer_action # None =>
                submission_history'[i] = submission_history[i])
         /\ submission_history'[i].reviewer_action
                \in {None, Some("approve"), Some("reject")}]_vars

\* C6: review_submission(id, "approve") on an existing NEEDS_REVIEW record sets
\* its status to ACCEPTED and its reviewer_action to "approve", "reject" sets
\* status REJECTED; afterwards get_pending_reviews no longer returns the record.
C6_ReviewDecides ==
    [][\A c \in ReviewCalls(submission_history) :
         (c[2] \in {"approve", "reject"} /\ ReviewOn(c[1], c[2], c[3])) =>
            \A i \in 1..Len(submission_history) :
               (/\ submission_history[i].document_id = c[1]
                /\ submission_history[i].status = "NEEDS_REVIEW") =>
                   /\ submission_history'[i].status =
                         (IF c[2] = "approve" THEN "ACCEPTED" ELSE "REJECTED")
                   /\ submission_history'[i].reviewer_action = Some(c[2])
                   /\ ~IsPending(submission_history'[i])]_vars

\* C27: in every reachable history (after demo seeding and any sequence of
\* submissions, also two of the same document kind and side at the same clock
\* reading, and with ids assigned by the live endpoint) no two records share a
\* document_id.
C27_UniqueDocumentId ==
    \A i, j \in 1..Len(submission_history) :
        i < j => submission_history[i].document_id # submission_history[j].document_id

\* C28: after any sequence or interleaving of approve/reject
\* review_submission calls on one existing document, the record's status,
\* reviewer_action and reviewer_notes are those of the action applied last, and
\* the records with other document_ids are unaffected.
C28_LastWriteWins ==
    (\A t \in Threads : threads.proc[t].pc = "idle") =>
        \A i \in 1..Len(submission_history) :
            LET r == submission_history[i]
                id == r.document_id
            IN  IF id \in PendingDemoIds /\ threads.last[id] # None
                THEN r = reviewed(DemoData(0)[i], threads.last[id][1][2],
                                  threads.last[id][1][3])
                ELSE r = DemoData(0)[i]

\* C29: in the upload flow at most 2 OCR analyses are started for one
\* (doc_type, side) without an administrative reset; every analysis is preceded,
\* in this order, by a passed can_make_call check and a successful
\* record_field_attempt (a failed check charges no attempt), and the Re-upload
\* button, which deletes the stored result, restores no attempt.
C29_ReuploadKeepsBudget ==
    [][\A d \in DocTypes, s \in Sides :
         LET key == get_field_key(d, s)
             n == AnalysesOf(analyses, key)
             n2 == AnalysesOf(analyses', key)
             a == AttemptsOf(field_retries, d, s)
             a2 == AttemptsOf(field_retries', d, s)
         IN  /\ n <= a
             /\ n2 <= 2
             /\ (n2 > n =>
                    /\ AnalyzeClickOn(d, s)
                    /\ n2 = n + 1
                    /\ can_make_call
                    /\ a < 2
                    /\ a2 = a + 1)
             /\ (AnalyzeClickOn(d, s) /\ ~can_make_call => field_retries' = field_retries)
             /\ (Reupload => a2 = a /\ n2 = n)]_vars

\* Both attempts of a side are spent on analyses, the second result was deleted
\* with Re-upload, and no further attempt is allowed.
C29_Witness ==
    /\ ret.op = "reupload"
    /\ ret.key \notin documents
    /\ AnalysesOf(analyses, ret.key) = 2
    /\ ret.key \in DOMAIN field_retries
    /\ field_retries[ret.key].attempts = 2
    /\ \E d \in DocTypes, s \in Sides :
          get_field_key(d, s) = ret.key /\ ~can_retry_field(d, s)[1]

\* C30: a refused record_call changes neither total_calls nor last_call nor any
\* field counter; a refused record_field_attempt changes no attempt count; a
\* successful record_call changes no per-field attempts; a successful
\* record_field_attempt changes neither total_calls nor the attempts of any other
\* (kind, side), two different (kind, side) never sharing a field key.
C30_BudgetsIndependent ==
    /\ \A d1 \in DocumentTypeValues \cup DocTypes, d2 \in DocumentTypeValues \cup DocTypes :
         \A s1 \in Sides, s2 \in Sides :
            get_field_key(d1, s1) = get_field_key(d2, s2) => d1 = d2 /\ s1 = s2
    /\ [][/\ (RecordCall /\ ~ret'.ok =>
                 /\ total_calls' = total_calls
                 /\ last_call' = last_call
                 /\ field_retries' = field_retries)
          /\ (RecordCall /\ ret'.ok =>
                 \A d \in DocTypes, s \in Sides :
                    AttemptsOf(field_retries', d, s) = AttemptsOf(field_retries, d, s))
          /\ \A d \in DocTypes, s \in Sides :
                RecordFieldAttemptOn(d, s) =>
                    /\ total_calls' = total_calls
                    /\ last_call' = last_call
                    /\ \A d2 \in DocTypes, s2 \in Sides :
                          (ret'.ok /\ <<d2, s2>> = <<d, s>>)
                          \/ AttemptsOf(field_retries', d2, s2)
                               = AttemptsOf(field_retries, d2, s2)]_vars

\* A record_field_attempt was refused while calls are recorded and the other
\* side of the document has an attempt of its own.
C30_Witness ==
    /\ ret.op = "record_field_attempt"
    /\ ~ret.ok
    /\ total_calls > 0
    /\ \E d \in DocTypes, s \in Sides :
          /\ get_field_key(d, s) # ret.key
          /\ AttemptsOf(field_retries, d, s) = 1

\* C9: over any sequence of prepare_and_submit, review_submission,
\* seed_demo_data and query operations the history never shrinks, the records
\* keep their positions, and every prepare_and_submit call appends exactly one
\* record, also when the endpoint fails.
C9_AppendOnly ==
    [][/\ Len(submission_history') >= Len(submission_history)
       /\ \A i \in 1..Len(submission_history) :
             Frozen(submission_history'[i]) = Frozen(submission_history[i])
       /\ (SubmitLean => Len(submission_history') = Len(submission_history) + 1)
       /\ (Len(submission_history') # Len(submission_history) =>
             SubmitLean \/ SeedDemoData)]_vars

C9_Witness ==
    /\ Submitted
    /\ configured
    /\ ret.outcome.kind = "none"
    /\ Seeded(submission_history)
    /\ Len(submission_history) = DemoCount + 2
    /\ \E i \in 1..Len(submission_history) :
          submission_history[i].reviewer_action # None

\* C11: review_submission on a document_id no record carries returns False and
\* leaves every record of the history unchanged; get_submission_status on such
\* an id returns found = False.
C11_UnknownIdNoOp ==
    [][\A id \in QueryIds(submission_history) :
         IndexOf(submission_history, id) = 0 =>
            /\ \A in \in ButtonInputs :
                  ReviewOn(id, in[1], in[2]) =>
                      /\ ret'.result = FALSE
                      /\ submission_history' = submission_history
            /\ GetSubmissionStatusOn(id) =>
                  /\ ret'.result.found = FALSE
                  /\ submission_history' = submission_history]_vars

C11_Witness ==
    /\ ret.op = "review_submission"
    /\ ret.result = FALSE
    /\ IndexOf(submission_history, Token("DOC-UNKNOWN")) = 0
    /\ \E i \in 1..Len(submission_history) : IsPending(submission_history[i])

\* The mismatch, extracted-field and risk data a record stores.
StoredData(r) ==
    <<r.mismatches, r.ocr_data, r.form_data, r.risk_factors, r.risk_level, r.risk_score>>

\* C10: after prepare_and_submit returns, no later change to the mismatches,
\* risk_factors, form_data or ocr_data objects the caller passed in (their nested
\* entries included) and no change made through the list returned by
\* get_all_submissions alters the data stored in the history record.
C10_ValueCopies ==
    [][\A i \in 1..Len(submission_history) :
         /\ i <= Len(submission_history')
         /\ StoredData(submission_history'[i]) = StoredData(submission_history[i])]_vars

----------------------------------------------------------------------------
(* Claims about GeminiOCR *)

MaxAttempts == GEMINI_MODELS_COUNT * max_retries

\* analyze_document returned without a usable response: no provider is
\* configured, or every candidate of this call failed.
Gave_up == ret.op = "analyze_document" /\ (ret.exhausted \/ ~is_configured)

Followed(k) == k < Len(ocr.trace) /\ ~ocr.trace[k].outcome.ok

ShortHint(error_str) == error_str.retry_in # None /\ error_str.retry_in[1] < 10

SameCandidate(k) ==
    /\ ocr.trace[k + 1].model = ocr.trace[k].model
    /\ ocr.trace[k + 1].attempt = ocr.trace[k].attempt + 1

NextCandidate(k) ==
    /\ ocr.trace[k + 1].model = ocr.trace[k].model + 1
    /\ ocr.trace[k + 1].attempt = 0

\* C25: in _call_with_retry the candidates are tried in list order and never
\* revisited; after a 'not found' error the next attempt is on the next
\* candidate with no wait; after a quota/rate error the orchestrator sleeps and
\* retries the same candidate only if a retry-after hint is present and below
\* 10 s (it then sleeps hint + 1 s, and retries the candidate if an attempt on
\* it is left), otherwise it advances to the next candidate without waiting;
\* after any other error the same candidate is retried until max_retries
\* attempts were made on it, then the next candidate is tried.
C25_FallbackPerErrorClass ==
    \A k \in 1..Len(ocr.trace) :
        LET e == ocr.trace[k]
            err == e.outcome.error
        IN  /\ e.model \in 1..GEMINI_MODELS_COUNT
            /\ e.attempt \in 0..(max_retries - 1)
            /\ Followed(k) =>
                 /\ SameCandidate(k) \/ NextCandidate(k)
                 /\ IF is_rate_limit(err)
                    THEN /\ (e.slept > 0 \/ SameCandidate(k)) => ShortHint(err)
                         /\ ShortHint(err) =>
                              /\ e.slept = err.retry_in[1] + 1
                              /\ SameCandidate(k) <=> e.attempt + 1 < max_retries
                         /\ ~ShortHint(err) => (NextCandidate(k) /\ e.slept = 0)
                    ELSE IF is_not_found(err)
                    THEN NextCandidate(k) /\ e.slept = 0
                    ELSE SameCandidate(k) <=> e.attempt + 1 < max_retries

\* One call that saw a quota error with a short hint retried on the first
\* candidate, a 'not found' on the second attempt, and two other errors on the
\* second candidate before it reached the third.
C25_Witness ==
    /\ Len(ocr.trace) >= 5
    /\ ocr.trace[1].outcome.error = QuotaShort
    /\ ocr.trace[2].model = 1
    /\ ocr.trace[2].outcome.error = ModelNotFound
    /\ ocr.trace[3].model = 2
    /\ ocr.trace[3].outcome.error = ServerError
    /\ ocr.trace[4].model = 2
    /\ ocr.trace[4].outcome.error = ServerError
    /\ ocr.trace[5].model = 3

----------------------------------------------------------------------------
(* Claims about the risk engine *)

Assessed == ret.op = "assess_risk"

\* The band of a risk score as the specification states it.
BandOf(score) ==
    IF score >= 80 THEN <<"HIGH", "reject">>
    ELSE IF score >= 60 THEN <<"HIGH", "manual-review">>
    ELSE IF score >= 30 THEN <<"MEDIUM", "manual-review">>
    ELSE <<"LOW", "auto-approve">>

\* C12: every RiskAssessment assess_risk returns, rule-based or AI-merged, has
\* risk_score in 0..100 and exactly the level and recommendation of the band of
\* its risk_score; the level and recommendation of the AI response do not count.
C12_BandOfScore ==
    (Assessed /\ ret.result.kind = "returned") =>
        /\ ret.result.value.risk_score \in 0..100
        /\ <<ret.result.value.risk_level, ret.result.value.recommendation>>
              = BandOf(ret.result.value.risk_score)

C12_Witness ==
    /\ Assessed
    /\ ret.result.kind = "returned"
    /\ ret.result.value.ai_generated
    /\ ret.ai.data.risk_level = "LOW"
    /\ ret.ai.data.recommendation = "auto-approve"
    /\ ret.result.value.risk_level = "HIGH"
    /\ ret.result.value.recommendation = "reject"

\* The score the AI response carries, as int() reads it.
AiScoreOf(ai) == int(Get(ai.data, "risk_score", JNum(0)))[1]

Merged == Assessed /\ ret.result.kind = "returned" /\ ret.result.value.ai_generated

\* C13: on the AI-merged path the final risk_score is max(rule-based score, AI
\* score) clamped to 100, and when the AI score is not above the rule-based
\* score, risk_score, risk_level and recommendation are those of the rule-based
\* result.
C13_MaxMerge ==
    Merged =>
        LET rule == ret.rule_result.value
            final == ret.result.value
        IN  /\ final.risk_score = MinOf(MaxOf(rule.risk_score, AiScoreOf(ret.ai)), 100)
            /\ AiScoreOf(ret.ai) <= rule.risk_score =>
                  /\ final.risk_score = rule.risk_score
                  /\ final.risk_level = rule.risk_level
                  /\ final.recommendation = rule.recommendation

C13_Witness ==
    /\ Merged
    /\ AiScoreOf(ret.ai) = 10
    /\ ret.rule_result.value.risk_score >= 60
    /\ ret.result.value.risk_score = ret.rule_result.value.risk_score

\* The AI path failed: no key, an exception of the call, no JSON object in the
\* text, a text that does not parse, or a parsed object with a risk_score that is
\* no number or risk_factors that are no list of objects.
AiFailed(ai) ==
    \/ ai.kind # "parsed"
    \/ int(Get(ai.data, "risk_score", JNum(0))) = None
    \/ Get(ai.data, "risk_factors", JList(<<>>)).type # "list"
    \/ LET items == Get(ai.data, "risk_factors", JList(<<>>)).items
       IN  \E i \in 1..Len(items) : items[i].type # "object"

\* C14: whenever the AI path fails, assess_risk raises nothing and returns
\* exactly the rule-based RiskAssessment.
C14_AiNeverFatal ==
    (Assessed /\ ret.use_ai /\ ret.rule_result.kind = "returned" /\ AiFailed(ret.ai)) =>
        ret.result = ret.rule_result

RuleScored == Assessed /\ ret.rule_result.kind = "returned"

\* The rule-based score of the same input without its mismatches
ScoreWithoutMismatches == _rule_based_risk([ret.args EXCEPT !.mismatches = <<>>]).value.risk_score

MismatchFactors(factors) == SelectSeq(factors, LAMBDA f : f.factor = "data_mismatch")

\* C24 as stated: a single date-of-birth mismatch (1985-12-01 vs 1985-01-12)
\* adds a data_mismatch factor whose contribution to risk_score is at least 25,
\* and the contribution of n mismatches is min(20 n, 50).
C24_SingleMismatchAtLeast25 ==
    RuleScored =>
        LET score == ret.rule_result.value.risk_score
            n == Len(ret.args.mismatches)
        IN  /\ score = MinOf(ScoreWithoutMismatches + MinOf(20 * n, 50), 100)
            /\ ret.args.mismatches = <<DobMismatch>> =>
                 /\ Len(MismatchFactors(ret.rule_result.value.risk_factors)) = 1
                 /\ score = 100 \/ score - ScoreWithoutMismatches >= 25

\* C24 as amended: a single date-of-birth mismatch adds one data_mismatch
\* factor and 20 points; n mismatches add n data_mismatch factors and
\* min(20 n, 50) points, before the clamp of the score to 100.
C24_MismatchContribution ==
    RuleScored =>
        LET n == Len(ret.args.mismatches)
            result == ret.rule_result.value
        IN  /\ Len(MismatchFactors(result.risk_factors)) = n
            /\ result.risk_score
                 = MinOf(ScoreWithoutMismatches + MinOf(20 * n, 50), 100)
            /\ ret.args.mismatches = <<DobMismatch>> =>
                 /\ MismatchFactors(result.risk_factors)[1].field = "date_of_birth"
                 /\ result.risk_score = MinOf(ScoreWithoutMismatches + 20, 100)

\* Three mismatches on an otherwise clean input: the cap of 50 applies.
C24_Witness ==
    /\ RuleScored
    /\ Len(ret.args.mismatches) = 3
    /\ ScoreWithoutMismatches = 0
    /\ ret.rule_result.value.risk_score = 50

\* The kinds of the factors the AI response lists
AiFactorKinds(ai) ==
    LET items == Get(ai.data, "risk_factors", JList(<<>>)).items
    IN  {items[i].fields.factor : i \in 1..Len(items)}

\* C26: on the AI-merged path the factor list of the returned RiskAssessment
\* is the union of the rule-based and the AI factors and holds no two factors
\* of the same factor kind, also when the rule-based list holds several
\* data_mismatch factors or the AI list repeats a kind.
C26_MergedFactorsDeduplicated ==
    Merged =>
        LET factors == ret.result.value.risk_factors
        IN  /\ FactorKinds(factors)
                 = FactorKinds(ret.rule_result.value.risk_factors) \cup AiFactorKinds(ret.ai)
            /\ \A i, j \in 1..Len(factors) :
                 i < j => factors[i].factor # factors[j].factor

----------------------------------------------------------------------------
(* Claims about the issue prioritisation *)

Prioritized == ret.op = "prioritize_issues"

\* C20: for every issue list prioritize_issues returns at most 3 issues, no two
\* of the same issue_type, ordered so that no WARNING precedes a BLOCKING and
\* no INFO precedes a WARNING or BLOCKING; each kept issue is the first
\* occurrence of its type in the input.
C20_PrioritizedShape ==
    Prioritized =>
        LET given == ret.issues
            out == ret.result
        IN  /\ Len(out) <= 3
            /\ \A i, j \in 1..Len(out) :
                 i < j =>
                   /\ out[i].issue_type # out[j].issue_type
                   /\ ~(out[i].severity = "warning" /\ out[j].severity = "blocking")
                   /\ ~(out[i].severity = "info" /\ out[j].severity \in {"warning", "blocking"})
            /\ \A k \in 1..Len(out) :
                 \E i \in 1..Len(given) :
                   /\ given[i] = out[k]
                   /\ \A j \in 1..(i - 1) : given[j].issue_type # out[k].issue_type

\* Four distinct types, the first INFO and the last BLOCKING: the order
\* changes and one issue is cut.
C20_Witness ==
    /\ Prioritized
    /\ Len(ret.issues) = 4
    /\ Cardinality({ret.issues[i].issue_type : i \in 1..4}) = 4
    /\ ret.issues[1].severity = "info"
    /\ ret.issues[4].severity = "blocking"
    /\ Len(ret.result) = 3
    /\ ret.result[1] = ret.issues[4]
    /\ ret.issues[1] \notin {ret.result[k] : k \in 1..3}

Scored == ret.op = "calculate_issue_score"

CountSeverity(issues, severity) ==
    Cardinality({i \in 1..Len(issues) : issues[i].severity = severity})

ClaimedScore(issues) ==
    LET raw == 100 - (30 * CountSeverity(issues, "blocking")
                        + 10 * CountSeverity(issues, "warning")
                        + 2 * CountSeverity(issues, "info"))
    IN  IF raw > 0 THEN raw ELSE 0

\* C21: calculate_issue_score is max(0, 100 - (30 x #BLOCKING + 10 x #WARNING
\* + 2 x #INFO)): the empty list scores 100, the score lies in 0..100, and
\* appending any issue to a list never increases the score.
C21_IssueScore ==
    [][/\ Scored' =>
            /\ ret'.result = ClaimedScore(ret'.issues)
            /\ ret'.result \in 0..100
            /\ (ret'.issues = <<>> => ret'.result = 100)
       /\ (Scored /\ AppendAndScore) => ret'.result <= ret.result]_vars

\* A list of three BLOCKING issues scored 10 gets a fourth one and scores 0.
C21_Witness ==
    /\ Scored
    /\ Len(ret.issues) = 4
    /\ \A i \in 1..4 : ret.issues[i].severity = "blocking"
    /\ ret.result = 0

ReadyChecked == ret.op = "is_deriv_ready"

HasBlocking(issues) == \E i \in 1..Len(issues) : issues[i].severity = "blocking"

\* The issue at position i is the first of its issue_type in the list.
FirstOfType(issues, i) == \A j \in 1..(i - 1) : issues[j].issue_type # issues[i].issue_type

\* Every issue carries the severity ISSUE_DEFINITIONS gives its type.
BuiltByCreateIssue(issues) ==
    \A i \in 1..Len(issues) : issues[i] = create_issue(issues[i].issue_type)

----------------------------------------------------------------------------
(* Claims about the /analyze endpoint *)

Analyzed == ret.op = "analyze_document"

BlurryOrUnreadable(req) ==
    req.image_quality.is_blurry \/ req.quality.is_blurry \/ ~req.quality.is_readable

\* C23: whenever the image is blurry or unreadable the analyze pipeline returns
\* is_ready = false, at least one BLOCKING issue of kind BLURRY or
\* TEXT_UNREADABLE, and a score below 50, for every extraction result that can
\* accompany such an image.
C23_BlurryOutcome ==
    (Analyzed /\ BlurryOrUnreadable(ret.request)) =>
        /\ ~ret.response.is_ready
        /\ \E i \in 1..Len(ret.response.issues) :
             /\ ret.response.issues[i].severity = "blocking"
             /\ ret.response.issues[i].issue_type \in {"blurry", "text_unreadable"}
        /\ ret.response.score < 50

====
